---- MODULE Spec2Model ----
(***************************************************************************)
(* Arenta: a task record with a status derived from four optional          *)
(* timestamps (task.rs), the manager's commands over the task collection   *)
(* (manager.rs), the single-day timeline canvas (timeline.rs) and the lock *)
(* file of arenta_loop (main.rs).                                          *)
(*                                                                         *)
(* Time is counted in minutes of local time from 00:00 of day 0.  An       *)
(* Option<DateTime<Local>> is the empty sequence (None) or a one-element   *)
(* sequence (Some).                                                        *)
(***************************************************************************)
EXTENDS Integers, Sequences, FiniteSets, TLC

VARIABLES
    now,        \* the wall clock, what Local::now() returns
    tasks,      \* Manager.tasks, the task(s) a function is applied to, or the
                \* tasks of Timeline.tasks that draw has walked through
    ret,        \* what the last operation returned or printed
    file,       \* the records of ~/.arenta, as dump_tasks last wrote them
    date,       \* Timeline.date
    pos_of_now, \* Timeline.pos_of_now
    canvas,     \* Timeline.canvas
    pending,    \* populate_index_and_line calls populate_task still has to make
    placed,     \* the calls made so far, each with the row it was given
    tl_pc,      \* where Timeline::draw is: "idle", "tasks", "done", "aborted"
    lock_file,  \* ~/.arenta.lock: None, or Some(p) with p the process that
                \* created it
    procs       \* the processes launched side by side: where each is in
                \* arenta_loop and the tasks of its Manager

taskVars == <<now, tasks, ret, file>>
timelineVars == <<date, pos_of_now, canvas, pending, placed, tl_pc>>
lockVars == <<lock_file, procs>>
vars == <<now, tasks, ret, file, date, pos_of_now, canvas, pending, placed, tl_pc,
          lock_file, procs>>

(***************************************************************************)
(* Bounds of the model.                                                    *)
(***************************************************************************)
\* days are 0..MaxDay
MaxDay == 1
\* the longest collection the sort command is applied to
MaxSort == 3

(***************************************************************************)
(* Option, dates, the clock.                                               *)
(***************************************************************************)
None == <<>>
Some(t) == <<t>>
IsSome(o) == o # <<>>
Unwrap(o) == o[1]

MinutesPerDay == 24 * 60
Days == 0..MaxDay
\* DateTime::date_naive: the calendar day of an instant
DateNaive(dt) == dt \div MinutesPerDay
At(day, hour, minute) == day * MinutesPerDay + hour * 60 + minute

\* The instants tasks are given: 09:00 of each day, or, for the tasks of one
\* day, two instants half an hour apart.
Instants == {At(d, 9, 0) : d \in Days}
SortInstants == {At(0, 9, 0), At(0, 9, 30)}

\* The readings of the clock, on day 0: at 09:00, when none of the instants
\* above has passed, a minute later, and a minute after 09:30.
ClockReadings == {At(0, 9, 0), At(0, 9, 1), At(0, 9, 31)}
LaterClock(t) == {c \in ClockReadings : c > t}

(***************************************************************************)
(* task.rs: TaskStatus, Task.                                              *)
(***************************************************************************)
TaskStatus == {"Backlog", "Planned", "Overdue", "Ongoing", "Complete"}

OptionOf(S) == {None} \cup {Some(t) : t \in S}

\* Every value of the struct over the instants S, with the planned pair as
\* record_to_task and get_planned_pair leave it: both set, in order, or none.
TaskValues(S) ==
    {[description |-> "t", planned_start |-> p[1], planned_complete |-> p[2],
      actual_start |-> a, actual_complete |-> c, status |-> s,
      is_deleted |-> FALSE] :
        p \in {<<None, None>>} \cup
              {<<Some(q[1]), Some(q[2])>> : q \in {r \in S \X S : r[1] <= r[2]}},
        a \in OptionOf(S), c \in OptionOf(S), s \in TaskStatus}

C1_Mut_UpdateStatus(task, t) ==
    [task EXCEPT !.status =
        IF IsSome(task.planned_start) /\ Unwrap(task.planned_start) < t
            THEN "Overdue"
        ELSE IF IsSome(task.actual_complete) /\ Unwrap(task.actual_complete) < t
            THEN "Complete"
        ELSE IF IsSome(task.actual_start) /\ Unwrap(task.actual_start) < t
            THEN "Ongoing"
        ELSE IF IsSome(task.planned_start) THEN "Planned"
        ELSE "Backlog"]

\* Task::update_status, with t the instant its Local::now() returns.
\* opt.map(|dt| dt < now).unwrap_or(false) is IsSome(opt) /\ Unwrap(opt) < t.
UpdateStatus(task, t) ==
    [task EXCEPT !.status =
        IF IsSome(task.actual_complete) /\ Unwrap(task.actual_complete) < t
            THEN "Complete"
        ELSE IF IsSome(task.actual_start) /\ Unwrap(task.actual_start) < t
            THEN "Ongoing"
        ELSE IF IsSome(task.planned_start) /\ Unwrap(task.planned_start) < t
            THEN "Overdue"
        ELSE IF IsSome(task.planned_start) THEN "Planned"
        ELSE "Backlog"]

(***************************************************************************)
(* command.rs: DateFilterOp, ListOption.                                   *)
(***************************************************************************)
DateFilterOp == {"Earlier", "EarlierEqual", "Equal", "Later", "LaterEqual"}

\* The list options satisfy is given; is_verbose and has_timeline, which it
\* does not read, stay as ListOption::default sets them.
ListOptions ==
    {[date_filter |-> <<op, d>>, include_backlog |-> b, is_verbose |-> FALSE,
      has_timeline |-> FALSE] :
        op \in DateFilterOp, d \in Days, b \in BOOLEAN}

C5_Mut_CompareDate(self_dt, op, d) ==
    IsSome(self_dt)
    /\ CASE op = "Earlier"      -> DateNaive(Unwrap(self_dt)) < d
         [] op = "EarlierEqual" -> DateNaive(Unwrap(self_dt)) < d
         [] op = "Equal"        -> DateNaive(Unwrap(self_dt)) = d
         [] op = "Later"        -> DateNaive(Unwrap(self_dt)) > d
         [] op = "LaterEqual"   -> DateNaive(Unwrap(self_dt)) >= d

\* compare_date
CompareDate(self_dt, op, d) ==
    IsSome(self_dt)
    /\ CASE op = "Earlier"      -> DateNaive(Unwrap(self_dt)) < d
         [] op = "EarlierEqual" -> DateNaive(Unwrap(self_dt)) <= d
         [] op = "Equal"        -> DateNaive(Unwrap(self_dt)) = d
         [] op = "Later"        -> DateNaive(Unwrap(self_dt)) > d
         [] op = "LaterEqual"   -> DateNaive(Unwrap(self_dt)) >= d

C6_Mut_Satisfy(self, option) ==
    \/ option.include_backlog
    \/ CompareDate(self.planned_start, option.date_filter[1], option.date_filter[2])
    \/ CompareDate(self.planned_complete, option.date_filter[1], option.date_filter[2])
    \/ CompareDate(self.actual_start, option.date_filter[1], option.date_filter[2])
    \/ CompareDate(self.actual_complete, option.date_filter[1], option.date_filter[2])

\* Task::satisfy
Satisfy(self, option) ==
    IF self.status = "Backlog"
    THEN option.include_backlog
    ELSE LET op == option.date_filter[1]
             d  == option.date_filter[2]
         IN \/ CompareDate(self.planned_start, op, d)
            \/ CompareDate(self.planned_complete, op, d)
            \/ CompareDate(self.actual_start, op, d)
            \/ CompareDate(self.actual_complete, op, d)

(***************************************************************************)
(* command.rs: the arguments of ls and ll.  An argument is the sequence of *)
(* its characters; args[1] is the command word, args[0] of the code.       *)
(***************************************************************************)
\* str::strip_prefix
HasPrefix(arg, prefix) ==
    Len(arg) >= Len(prefix) /\ SubSeq(arg, 1, Len(prefix)) = prefix
StripPrefix(arg, prefix) == SubSeq(arg, Len(prefix) + 1, Len(arg))

Digits == <<"0", "1", "2", "3", "4", "5", "6", "7", "8", "9">>
IsDigit(c) == \E d \in DOMAIN Digits : Digits[d] = c
DigitValue(c) == (CHOOSE d \in DOMAIN Digits : Digits[d] = c) - 1

RECURSIVE DecimalValue(_)
DecimalValue(ds) ==
    IF ds = <<>> THEN 0
    ELSE 10 * DecimalValue(SubSeq(ds, 1, Len(ds) - 1)) + DigitValue(ds[Len(ds)])

\* str::parse::<i32>: an optional sign, then digits
ParseI32(arg) ==
    LET signed == arg # <<>> /\ arg[1] \in {"+", "-"}
        ds == IF signed THEN Tail(arg) ELSE arg
    IN  IF ds = <<>> \/ \E i \in DOMAIN ds : ~IsDigit(ds[i]) THEN None
        ELSE IF signed /\ arg[1] = "-" THEN Some(-DecimalValue(ds))
        ELSE Some(DecimalValue(ds))

\* try_parse_date for the arguments that are not written as a date (mm-dd
\* or yyyy-mm-dd): an offset in days from today
TryParseDate(arg, today) ==
    IF IsSome(ParseI32(arg)) THEN Some(today + Unwrap(ParseI32(arg))) ELSE None

\* try_parse_date_filter: the prefixes are tried in the order of the code
TryParseDateFilter(arg, today) ==
    LET with(op, prefix) ==
            LET d == TryParseDate(StripPrefix(arg, prefix), today)
            IN  IF IsSome(d) THEN Some(<<op, Unwrap(d)>>) ELSE None
    IN  IF HasPrefix(arg, <<">", "=">>) THEN with("LaterEqual", <<">", "=">>)
        ELSE IF HasPrefix(arg, <<">">>) THEN with("Later", <<">">>)
        ELSE IF HasPrefix(arg, <<"<", "=">>) THEN with("EarlierEqual", <<"<", "=">>)
        ELSE IF HasPrefix(arg, <<"<">>) THEN with("Earlier", <<"<">>)
        ELSE with("Equal", <<>>)

\* try_parse_bv
TryParseBv(arg) ==
    IF \E i \in DOMAIN arg : arg[i] # "b" /\ arg[i] # "v" THEN None
    ELSE Some(<<\E i \in DOMAIN arg : arg[i] = "b",
                \E i \in DOMAIN arg : arg[i] = "v">>)

\* ListOption::default
DefaultListOption(today) ==
    [date_filter |-> <<"Equal", today>>, include_backlog |-> FALSE,
     is_verbose |-> FALSE, has_timeline |-> FALSE]

\* the first argument after the command word: a date filter, else flags
FirstArgument(option, arg, today) ==
    IF IsSome(TryParseDateFilter(arg, today))
    THEN Some([option EXCEPT !.date_filter = Unwrap(TryParseDateFilter(arg, today))])
    ELSE IF IsSome(TryParseBv(arg))
    THEN Some([option EXCEPT !.include_backlog = Unwrap(TryParseBv(arg))[1],
                             !.is_verbose = Unwrap(TryParseBv(arg))[2]])
    ELSE None

\* the second argument: flags, else a date filter
SecondArgument(option, arg, today) ==
    IF IsSome(TryParseBv(arg))
    THEN Some([option EXCEPT !.include_backlog = Unwrap(TryParseBv(arg))[1],
                             !.is_verbose = Unwrap(TryParseBv(arg))[2]])
    ELSE IF IsSome(TryParseDateFilter(arg, today))
    THEN Some([option EXCEPT !.date_filter = Unwrap(TryParseDateFilter(arg, today))])
    ELSE None

\* the arguments read, before the last test of try_parse_list_option
ArgumentsRead(args, today) ==
    LET option == [DefaultListOption(today) EXCEPT !.has_timeline = (args[1] = "ll")]
        first == IF Len(args) >= 2 THEN FirstArgument(option, args[2], today)
                 ELSE Some(option)
    IN  IF ~IsSome(first) THEN None
        ELSE IF Len(args) >= 3 THEN SecondArgument(Unwrap(first), args[3], today)
        ELSE first

C23_Mut_TryParseListOption(args, today) ==
    IF args[1] \notin {"ls", "ll"} THEN None ELSE ArgumentsRead(args, today)

\* try_parse_list_option
TryParseListOption(args, today) ==
    IF args[1] \notin {"ls", "ll"} THEN None
    ELSE LET read == ArgumentsRead(args, today)
         IN  IF ~IsSome(read) THEN None
             ELSE IF Unwrap(read).has_timeline /\ Unwrap(read).date_filter[1] # "Equal"
             THEN None
             ELSE read

(***************************************************************************)
(* Task::has_higher_priority_than.  Its unwrap() calls panic on None.      *)
(***************************************************************************)
\* the timestamp the match arm of self.status unwraps on both tasks
PriorityKey(task, status) ==
    CASE status = "Overdue"  -> task.planned_start
      [] status = "Ongoing"  -> task.actual_start
      [] status = "Planned"  -> task.planned_start
      [] status = "Complete" -> task.actual_complete
      [] OTHER -> None

\* whether the call panics: both tasks in the same arm, one key unset
HasHigherPriorityPanics(self, task) ==
    /\ self.status # "Backlog"
    /\ task.status = self.status
    /\ \/ ~IsSome(PriorityKey(self, self.status))
       \/ ~IsSome(PriorityKey(task, self.status))

C2_Mut_HasHigherPriorityThan(self, task) ==
    CASE self.status = "Overdue" ->
            IF task.status = "Overdue"
            THEN Unwrap(self.planned_start) < Unwrap(task.planned_start)
            ELSE TRUE
      [] self.status = "Ongoing" ->
            IF task.status = "Ongoing"
            THEN Unwrap(self.actual_start) > Unwrap(task.actual_start)
            ELSE task.status # "Overdue"
      [] self.status = "Planned" ->
            IF task.status = "Planned"
            THEN Unwrap(self.planned_start) < Unwrap(task.planned_start)
            ELSE task.status = "Complete" \/ task.status = "Backlog"
      [] self.status = "Complete" ->
            IF task.status = "Complete"
            THEN Unwrap(self.actual_complete) > Unwrap(task.actual_complete)
            ELSE task.status = "Backlog" \/ task.status = "Planned"
      [] self.status = "Backlog" -> FALSE

C3_Mut_HasHigherPriorityThan(self, task) ==
    CASE self.status = "Overdue" ->
            IF task.status = "Overdue"
            THEN Unwrap(self.planned_start) < Unwrap(task.planned_start)
            ELSE TRUE
      [] self.status = "Ongoing" ->
            IF task.status = "Ongoing"
            THEN Unwrap(self.actual_start) < Unwrap(task.actual_start)
            ELSE task.status # "Overdue"
      [] self.status = "Planned" ->
            IF task.status = "Planned"
            THEN Unwrap(self.planned_start) < Unwrap(task.planned_start)
            ELSE task.status = "Complete" \/ task.status = "Backlog"
      [] self.status = "Complete" ->
            IF task.status = "Complete"
            THEN Unwrap(self.actual_complete) > Unwrap(task.actual_complete)
            ELSE task.status = "Backlog"
      [] self.status = "Backlog" -> FALSE

C21_Mut_HasHigherPriorityThan(self, task) ==
    CASE self.status = "Overdue" ->
            IF task.status = "Overdue"
            THEN Unwrap(self.planned_start) <= Unwrap(task.planned_start)
            ELSE TRUE
      [] self.status = "Ongoing" ->
            IF task.status = "Ongoing"
            THEN Unwrap(self.actual_start) > Unwrap(task.actual_start)
            ELSE task.status # "Overdue"
      [] self.status = "Planned" ->
            IF task.status = "Planned"
            THEN Unwrap(self.planned_start) < Unwrap(task.planned_start)
            ELSE task.status = "Complete" \/ task.status = "Backlog"
      [] self.status = "Complete" ->
            IF task.status = "Complete"
            THEN Unwrap(self.actual_complete) > Unwrap(task.actual_complete)
            ELSE task.status = "Backlog"
      [] self.status = "Backlog" -> FALSE

\* the value returned when the call does not panic
HasHigherPriorityThan(self, task) ==
    CASE self.status = "Overdue" ->
            IF task.status = "Overdue"
            THEN Unwrap(self.planned_start) < Unwrap(task.planned_start)
            ELSE TRUE
      [] self.status = "Ongoing" ->
            IF task.status = "Ongoing"
            THEN Unwrap(self.actual_start) > Unwrap(task.actual_start)
            ELSE task.status # "Overdue"
      [] self.status = "Planned" ->
            IF task.status = "Planned"
            THEN Unwrap(self.planned_start) < Unwrap(task.planned_start)
            ELSE task.status = "Complete" \/ task.status = "Backlog"
      [] self.status = "Complete" ->
            IF task.status = "Complete"
            THEN Unwrap(self.actual_complete) > Unwrap(task.actual_complete)
            ELSE task.status = "Backlog"
      [] self.status = "Backlog" -> FALSE

(***************************************************************************)
(* The timeline is idle in the specifications of the task functions.       *)
(***************************************************************************)
TimelineIdle ==
    /\ date = 0
    /\ pos_of_now = None
    /\ canvas = <<>>
    /\ pending = <<>>
    /\ placed = <<>>
    /\ tl_pc = "idle"

\* One process, which holds the lock, in the specifications of the functions
\* and of the command loop.
LockIdle ==
    /\ lock_file = None
    /\ procs = <<>>

NoRet == [op |-> "none"]

(***************************************************************************)
(* SpecTask: update_status and satisfy applied to one task, any value of   *)
(* the struct, at any reading of the clock.                                *)
(***************************************************************************)
InitTask ==
    /\ now \in ClockReadings
    /\ tasks \in {<<t>> : t \in TaskValues(Instants)}
    /\ ret = NoRet
    /\ file = <<>>
    /\ TimelineIdle
    /\ LockIdle

\* task.update_status()
DoUpdateStatus ==
    /\ tasks' = [tasks EXCEPT ![1] = UpdateStatus(tasks[1], now)]
    /\ ret' = [op |-> "update_status", before |-> tasks[1].status]
    /\ UNCHANGED <<now, file, timelineVars, lockVars>>

\* task.satisfy(&option)
DoSatisfy ==
    \E option \in ListOptions :
        /\ ret' = [op |-> "satisfy", option |-> option,
                   value |-> Satisfy(tasks[1], option)]
        /\ UNCHANGED <<now, tasks, file, timelineVars, lockVars>>

\* time passes
Tick ==
    \E t \in LaterClock(now) :
        /\ now' = t
        /\ ret' = NoRet
        /\ UNCHANGED <<tasks, file, timelineVars, lockVars>>

NextTask == DoUpdateStatus \/ DoSatisfy \/ Tick

SpecTask == InitTask /\ [][NextTask]_vars

(***************************************************************************)
(* SpecPriority: has_higher_priority_than applied to two tasks, any values *)
(* of the struct.                                                          *)
(***************************************************************************)
InitPriority ==
    /\ now = 0
    /\ tasks \in {<<a, b>> : a \in TaskValues(Instants), b \in TaskValues(Instants)}
    /\ ret = NoRet
    /\ file = <<>>
    /\ TimelineIdle
    /\ LockIdle

\* tasks[1].has_higher_priority_than(&tasks[2])
DoCompare ==
    /\ ret.op = "none"
    /\ ret' = IF HasHigherPriorityPanics(tasks[1], tasks[2])
              THEN [op |-> "has_higher_priority_than", panicked |-> TRUE,
                    value |-> FALSE]
              ELSE [op |-> "has_higher_priority_than", panicked |-> FALSE,
                    value |-> HasHigherPriorityThan(tasks[1], tasks[2])]
    /\ UNCHANGED <<now, tasks, file, timelineVars, lockVars>>

NextPriority == DoCompare

SpecPriority == InitPriority /\ [][NextPriority]_vars

(***************************************************************************)
(* manager.rs: the sort command.                                           *)
(***************************************************************************)
\* DateTime::to_rfc3339 writes an instant as its date and its time of day;
\* DateTime::parse_from_rfc3339 reads it back.
ToRfc3339(dt) == <<dt \div MinutesPerDay, dt % MinutesPerDay>>
ParseFromRfc3339(s) == s[1] * MinutesPerDay + s[2]

\* datetime_opt_to_string: the empty string for None
DatetimeOptToString(o) == IF IsSome(o) THEN ToRfc3339(Unwrap(o)) ELSE <<>>

C27_Mut_DumpTasks(ts) ==
    [i \in 1..Len(ts) |->
        <<ts[i].description,
          DatetimeOptToString(ts[i].planned_start),
          DatetimeOptToString(ts[i].planned_complete),
          DatetimeOptToString(ts[i].actual_complete),
          DatetimeOptToString(ts[i].actual_start)>>]

\* dump_tasks: the five fields of every task, in order
DumpTasks(ts) ==
    [i \in 1..Len(ts) |->
        <<ts[i].description,
          DatetimeOptToString(ts[i].planned_start),
          DatetimeOptToString(ts[i].planned_complete),
          DatetimeOptToString(ts[i].actual_start),
          DatetimeOptToString(ts[i].actual_complete)>>]

C26_Mut_UpdateStatusOfAllTasks(ts, readings) == ts

\* update_status_of_all_tasks; readings[i] is what Local::now() returns in
\* the i-th task's update_status
UpdateStatusOfAllTasks(ts, readings) ==
    [i \in 1..Len(ts) |-> UpdateStatus(ts[i], readings[i])]

C4_Mut_IsLess(ta, tb) == ~HasHigherPriorityThan(ta, tb)

\* the closure given to sort_by says Less exactly when ta ranks above tb
IsLess(ta, tb) == HasHigherPriorityThan(ta, tb)

Front(s) == SubSeq(s, 1, Len(s) - 1)
Last(s) == s[Len(s)]

\* slice::sort_by on a short slice is an insertion sort: each element in turn
\* moves left past every element it is less than.
RECURSIVE InsertTail(_, _)
InsertTail(prefix, x) ==
    IF prefix = <<>> THEN <<x>>
    ELSE IF IsLess(x, Last(prefix))
         THEN Append(InsertTail(Front(prefix), x), Last(prefix))
         ELSE Append(prefix, x)

RECURSIVE SortBy(_)
SortBy(v) == IF v = <<>> THEN <<>> ELSE InsertTail(SortBy(Front(v)), Last(v))

\* whether one of the comparisons the sort makes panics
RECURSIVE InsertTailPanics(_, _)
InsertTailPanics(prefix, x) ==
    /\ prefix # <<>>
    /\ \/ HasHigherPriorityPanics(x, Last(prefix))
       \/ /\ IsLess(x, Last(prefix))
          /\ InsertTailPanics(Front(prefix), x)

RECURSIVE SortByPanics(_)
SortByPanics(v) ==
    /\ v # <<>>
    /\ \/ SortByPanics(Front(v))
       \/ InsertTailPanics(SortBy(Front(v)), Last(v))

\* Manager::sort_tasks: refresh every status, sort, write the file and print
\* "all tasks sorted".  The refresh is taken at one reading t of the clock
\* (the code reads it once per task, in a loop with nothing in between).  A
\* panic in a comparison ends the process before the file is written.
SortTasks ==
    \E t \in {now} \cup LaterClock(now) :
        LET fresh == UpdateStatusOfAllTasks(tasks, [i \in 1..Len(tasks) |-> t])
        IN  /\ now' = t
            /\ IF SortByPanics(fresh)
               THEN /\ tasks' = fresh
                    /\ file' = file
                    /\ ret' = [op |-> "sort", panicked |-> TRUE, moved |-> FALSE]
               ELSE /\ tasks' = SortBy(fresh)
                    /\ file' = DumpTasks(tasks')
                    /\ ret' = [op |-> "sort", panicked |-> FALSE,
                               moved |-> tasks' # fresh]
            /\ UNCHANGED <<timelineVars, lockVars>>

(***************************************************************************)
(* SpecSort: the sort command on a collection as load_tasks_from_file      *)
(* returns it (every status Planned until refreshed), at any reading of    *)
(* the clock.                                                              *)
(***************************************************************************)
\* the planned length, in minutes, get_planned_pair is given
PlanMinutes == 30


\* The tasks record_to_task returns over SortInstants: the planned pair both
\* set or both unset, actual_start not later than actual_complete, the status
\* Planned.
LoadedTasks ==
    {t \in
        {[description |-> "t", planned_start |-> p,
          planned_complete |->
              IF IsSome(p) THEN Some(Unwrap(p) + PlanMinutes) ELSE None,
          actual_start |-> a, actual_complete |-> c, status |-> "Planned",
          is_deleted |-> FALSE] :
            p \in OptionOf(SortInstants), a \in OptionOf(SortInstants),
            c \in OptionOf(SortInstants)} :
        ~(/\ IsSome(t.actual_start) /\ IsSome(t.actual_complete)
          /\ Unwrap(t.actual_start) > Unwrap(t.actual_complete))}

SeqsUpTo(S, n) == UNION {[1..m -> S] : m \in 0..n}

InitSort ==
    /\ now = At(0, 9, 0)
    /\ tasks \in SeqsUpTo(LoadedTasks, MaxSort)
    /\ ret = NoRet
    /\ file = DumpTasks(tasks)
    /\ TimelineIdle
    /\ LockIdle

NextSort == SortTasks

SpecSort == InitSort /\ [][NextSort]_vars

(***************************************************************************)
(* SpecOrder: two tasks of any value refreshed at one reading of the       *)
(* clock, as sort_tasks refreshes them, then compared in both directions   *)
(* and each with itself.                                                   *)
(***************************************************************************)
InitOrder ==
    /\ now \in ClockReadings
    /\ tasks \in {<<a, b>> : a \in TaskValues(SortInstants),
                             b \in TaskValues(SortInstants)}
    /\ ret = NoRet
    /\ file = <<>>
    /\ TimelineIdle
    /\ LockIdle

\* update_status_of_all_tasks on the pair
RefreshPair ==
    /\ ret.op = "none"
    /\ tasks' = UpdateStatusOfAllTasks(tasks, [i \in 1..Len(tasks) |-> now])
    /\ ret' = [op |-> "update_status_of_all_tasks"]
    /\ UNCHANGED <<now, file, timelineVars, lockVars>>

\* self.has_higher_priority_than(task): whether it panics, else its value
Compared(self, task) ==
    IF HasHigherPriorityPanics(self, task)
    THEN [panicked |-> TRUE, value |-> FALSE]
    ELSE [panicked |-> FALSE, value |-> HasHigherPriorityThan(self, task)]

\* has_higher_priority_than called on the refreshed pair in both
\* directions and on the first task with itself
ComparePair ==
    /\ ret.op = "update_status_of_all_tasks"
    /\ ret' = [op |-> "has_higher_priority_than",
               ab |-> Compared(tasks[1], tasks[2]),
               ba |-> Compared(tasks[2], tasks[1]),
               aa |-> Compared(tasks[1], tasks[1])]
    /\ UNCHANGED <<now, tasks, file, timelineVars, lockVars>>

NextOrder == RefreshPair \/ ComparePair

SpecOrder == InitOrder /\ [][NextOrder]_vars

(***************************************************************************)
(* timeline.rs: Pixel, Timeline.  Row r of the code's canvas is            *)
(* canvas[r + 1]; a row is a function from its columns 0..len-1 to pixels. *)
(***************************************************************************)
UI_MAX_WIDTH == 73
START_HOUR == 8
TIMELINE_TICK == 10

\* Pixel::new, Pixel::default, Pixel::is_empty
Pixel(content, color) == [content |-> content, color |-> color]
DefaultPixel == Pixel(" ", None)
IsEmpty(pixel) == pixel.content = " "

C14_Mut_SetIfEmpty(self, pixel) == pixel

\* Pixel::set_if_empty
SetIfEmpty(self, pixel) == IF IsEmpty(self) THEN pixel ELSE self

\* Task::color_of_status
ColorOfStatus(task) ==
    CASE task.status = "Backlog"  -> "grey"
      [] task.status = "Planned"  -> "cyan"
      [] task.status = "Overdue"  -> "red"
      [] task.status = "Ongoing"  -> "yellow"
      [] task.status = "Complete" -> "green"

\* timeline_index_to_char
TimelineIndexToChar(index) ==
    <<"a", "b", "c", "d", "e", "f", "g", "h", "i", "j", "k", "l", "m", "n", "o",
      "p", "q", "r", "s", "t", "u", "v", "w", "x", "y", "z">>[index + 1]

\* i64 division, which truncates toward zero
TruncDiv(a, b) == IF a >= 0 THEN a \div b ELSE -((-a) \div b)

\* get_pos_in_row, with t the instant its Local::now() returns: the minutes
\* from 08:00 of the day of t to dt, divided by the tick
GetPosInRow(dt, t) ==
    LET start_of_day == DateNaive(t) * MinutesPerDay + START_HOUR * 60
    IN  TruncDiv(dt - start_of_day, TIMELINE_TICK)

C8_Mut_Clamp(x, lo, hi) == IF x < lo THEN lo ELSE IF x > hi - 1 THEN hi - 1 ELSE x

\* i64::clamp
Clamp(x, lo, hi) == IF x < lo THEN lo ELSE IF x > hi THEN hi ELSE x

\* Timeline::date_includes
DateIncludes(datetime) == IsSome(datetime) /\ DateNaive(Unwrap(datetime)) = date

\* One call of populate_index_and_line: its arguments and, for the claims
\* about get_pos_in_row, the timestamp each position was projected from.
Call(start_pos, end_pos, index, pixel, start_dt, end_dt) ==
    [start_pos |-> start_pos, end_pos |-> end_pos, index |-> index,
     pixel |-> pixel, start_dt |-> start_dt, end_dt |-> end_dt]

\* Timeline::populate_task: the calls of populate_index_and_line it makes
PopulateTaskCalls(task, index) ==
    IF task.is_deleted THEN <<>>
    ELSE
      (IF DateIncludes(task.planned_start) /\ DateIncludes(task.planned_complete)
       THEN <<Call(GetPosInRow(Unwrap(task.planned_start), now),
                   GetPosInRow(Unwrap(task.planned_complete), now),
                   index, Pixel("-", Some(ColorOfStatus(task))),
                   task.planned_start, task.planned_complete)>>
       ELSE <<>>)
      \o
      (IF DateIncludes(task.actual_start)
       THEN <<Call(GetPosInRow(Unwrap(task.actual_start), now),
                   IF IsSome(task.actual_complete)
                   THEN GetPosInRow(Unwrap(task.actual_complete), now)
                   ELSE IF IsSome(pos_of_now) THEN Unwrap(pos_of_now)
                   ELSE UI_MAX_WIDTH - 1,
                   index, Pixel("=", Some(ColorOfStatus(task))),
                   task.actual_start, task.actual_complete)>>
       ELSE IF DateIncludes(task.actual_complete)
       THEN <<Call(1, GetPosInRow(Unwrap(task.actual_complete), now),
                   index, Pixel("=", Some(ColorOfStatus(task))),
                   None, task.actual_complete)>>
       ELSE <<>>)

C12_Mut_CanPutInRow(row, start_pos, end_pos) ==
    \A c \in DOMAIN row : IsEmpty(row[c])

C10_Mut_CanPutInRow(row, start_pos, end_pos) ==
    \A c \in start_pos..end_pos : IsEmpty(row[c])

\* can_put_in_row
CanPutInRow(row, start_pos, end_pos) ==
    \A c \in (start_pos - 1)..end_pos : IsEmpty(row[c])

C11_Mut_Position(cv, start_pos, end_pos) == None

C9_Mut_Position(cv, start_pos, end_pos) ==
    LET fits == {r \in 0..Len(cv) - 1 : CanPutInRow(cv[r + 1], start_pos, end_pos)}
    IN  IF fits = {} THEN None
        ELSE Some(CHOOSE r \in fits : \A q \in fits : q <= r)

\* self.canvas.iter().position(|row| can_put_in_row(row, start_pos, end_pos))
Position(cv, start_pos, end_pos) ==
    LET fits == {r \in 0..Len(cv) - 1 : CanPutInRow(cv[r + 1], start_pos, end_pos)}
    IN  IF fits = {} THEN None
        ELSE Some(CHOOSE r \in fits : \A q \in fits : r <= q)

\* Timeline::new_row: the canvas with an empty row pushed
NewRow(cv) == Append(cv, [c \in 0..UI_MAX_WIDTH - 1 |-> DefaultPixel])

\* Timeline::put_in_row
PutInRow(cv, row, start_pos, end_pos, pixel) ==
    [cv EXCEPT ![row + 1] =
        [c \in DOMAIN cv[row + 1] |->
            IF c \in start_pos..end_pos THEN pixel ELSE cv[row + 1][c]]]

\* Whether populate_index_and_line panics on the clamped columns.  With
\* start_pos > end_pos + 2 the slice of can_put_in_row starts after its end;
\* end_pos - start_pos + 1 overflows when start_pos > end_pos, which panics
\* where overflow is checked and otherwise wraps, to 0 when start_pos is
\* end_pos + 1 and to a length no vector can have when it is larger.
PlacementPanics(start_pos, end_pos, overflow_checks) ==
    \/ start_pos > end_pos + 1
    \/ start_pos = end_pos + 1 /\ overflow_checks

\* the canvas and the row populate_index_and_line leaves when it returns
PlacedRow(cv, start_pos, end_pos) ==
    IF IsSome(Position(cv, start_pos, end_pos))
    THEN Unwrap(Position(cv, start_pos, end_pos))
    ELSE Len(cv)

Placed(cv, start_pos, end_pos, index, pixel) ==
    LET row == PlacedRow(cv, start_pos, end_pos)
        grown == IF IsSome(Position(cv, start_pos, end_pos)) THEN cv ELSE NewRow(cv)
        lined == PutInRow(grown, row, start_pos, end_pos, pixel)
    IN  [lined EXCEPT ![row + 1][start_pos - 1] = Pixel(index, pixel.color)]

\* the hour marks of the scale: hour h is written from column 6 * (h - 8)
ScaleHours ==
    [c \in 0..UI_MAX_WIDTH |->
        LET h == START_HOUR + (c \div 6)
            digits == <<"0", "1", "2", "3", "4", "5", "6", "7", "8", "9">>
        IN  Pixel(IF c % 6 = 0 /\ h < 10 THEN digits[h + 1]
                  ELSE IF c % 6 = 0 THEN digits[(h \div 10) + 1]
                  ELSE IF c % 6 = 1 /\ h >= 10 THEN digits[(h % 10) + 1]
                  ELSE " ", None)]

\* the border of the scale: a mark every hour
ScaleBorder ==
    [c \in 0..UI_MAX_WIDTH - 1 |-> Pixel(IF c % 6 = 0 THEN "|" ELSE "-", None)]

\* Timeline::populate_scale_line
PopulateScaleLine(cv) == <<ScaleHours, ScaleBorder>> \o cv \o <<ScaleBorder, ScaleHours>>

\* Timeline::populate_now_cursor, on the canvas with its scale lines
PopulateNowCursor(cv) ==
    IF ~IsSome(pos_of_now) THEN cv
    ELSE LET pos == Clamp(Unwrap(pos_of_now), 0, UI_MAX_WIDTH - 1)
             bottom == Len(cv) - 2
         IN  [r \in 1..Len(cv) |->
                IF r - 1 = 1
                THEN [cv[r] EXCEPT ![pos] = Pixel("v", Some("Red"))]
                ELSE IF r - 1 = bottom
                THEN [cv[r] EXCEPT ![pos] = Pixel("^", Some("Red"))]
                ELSE IF r - 1 \in 2..bottom
                THEN [cv[r] EXCEPT ![pos] = SetIfEmpty(@, Pixel("|", Some("Red")))]
                ELSE cv[r]]

(***************************************************************************)
(* SpecTimeline: Timeline::new and Timeline::draw for the date of day 1,   *)
(* on the day before, on that day and on the day after.  draw walks        *)
(* through the visible tasks; each is a task list_tasks_with_timeline has  *)
(* refreshed and found to satisfy the equality filter of the date.         *)
(***************************************************************************)
\* how many tasks the timeline is given
MaxVisible == 2

TargetDate == 1

\* planned pairs and actual pairs around the displayed hours of the target
\* date: before 08:00, within the hours, after 20:00, on the days around,
\* and started after the completion
PlannedPairs ==
    {<<None, None>>,
     <<Some(At(TargetDate, 8, 20)), Some(At(TargetDate, 9, 0))>>,
     <<Some(At(TargetDate, 9, 0)), Some(At(TargetDate, 20, 30))>>,
     <<Some(At(TargetDate, 7, 30)), Some(At(TargetDate, 8, 10))>>}

ActualPairs ==
    {<<None, None>>,
     <<Some(At(TargetDate, 7, 30)), Some(At(TargetDate, 8, 10))>>,
     <<Some(At(TargetDate, 9, 30)), None>>,
     <<Some(At(TargetDate, 8, 20)), Some(At(TargetDate, 8, 10))>>,
     <<Some(At(TargetDate - 1, 23, 0)), Some(At(TargetDate, 8, 10))>>,
     <<Some(At(TargetDate, 9, 0)), Some(At(TargetDate + 1, 0, 30))>>,
     <<Some(At(TargetDate, 9, 0)), Some(At(TargetDate, 8, 10))>>}

\* the tasks the timeline can be given at the instant t
VisibleTasks(t) ==
    {task \in
        {UpdateStatus(
            [description |-> "t", planned_start |-> p[1], planned_complete |-> p[2],
             actual_start |-> a[1], actual_complete |-> a[2], status |-> "Planned",
             is_deleted |-> FALSE], t) : p \in PlannedPairs, a \in ActualPairs} :
        Satisfy(task, [date_filter |-> <<"Equal", date>>, include_backlog |-> TRUE,
                       is_verbose |-> FALSE, has_timeline |-> TRUE])}

\* Timeline::new
InitTimeline ==
    /\ now \in {At(TargetDate - 1, 10, 0), At(TargetDate, 10, 0),
                At(TargetDate + 1, 10, 0)}
    /\ tasks = <<>>
    /\ ret = NoRet
    /\ file = <<>>
    /\ date = TargetDate
    /\ pos_of_now = IF DateNaive(now) = date THEN Some(GetPosInRow(now, now)) ELSE None
    /\ canvas = <<>>
    /\ pending = <<>>
    /\ placed = <<>>
    /\ tl_pc = "tasks"
    /\ LockIdle

\* draw takes the next task of Timeline.tasks: populate_task up to its calls
\* of populate_index_and_line
PopulateTask ==
    /\ tl_pc = "tasks"
    /\ pending = <<>>
    /\ Len(tasks) < MaxVisible
    /\ \E task \in VisibleTasks(now) :
          /\ tasks' = Append(tasks, task)
          /\ pending' = PopulateTaskCalls(task, TimelineIndexToChar(Len(tasks)))
    /\ UNCHANGED <<now, ret, file, date, pos_of_now, canvas, placed, tl_pc, lockVars>>

\* Timeline::populate_index_and_line, the next call populate_task makes
PopulateIndexAndLine ==
    /\ tl_pc = "tasks"
    /\ pending # <<>>
    /\ LET call == Head(pending)
           start_pos == Clamp(call.start_pos, 1, UI_MAX_WIDTH - 1)
           end_pos == Clamp(call.end_pos, 1, UI_MAX_WIDTH - 1)
       IN  \E overflow_checks \in BOOLEAN :
              IF PlacementPanics(start_pos, end_pos, overflow_checks)
              THEN /\ tl_pc' = "aborted"
                   /\ UNCHANGED <<canvas, pending, placed>>
              ELSE /\ canvas' = Placed(canvas, start_pos, end_pos, call.index,
                                       call.pixel)
                   /\ placed' = Append(placed,
                          [row |-> PlacedRow(canvas, start_pos, end_pos),
                           start_pos |-> start_pos, end_pos |-> end_pos,
                           call |-> call])
                   /\ pending' = Tail(pending)
                   /\ tl_pc' = "tasks"
    /\ UNCHANGED <<now, tasks, ret, file, date, pos_of_now, lockVars>>

\* the rest of draw, after the last task: the scale lines, the now cursor,
\* and the rows printed
DrawRest ==
    /\ tl_pc = "tasks"
    /\ pending = <<>>
    /\ canvas' = PopulateNowCursor(PopulateScaleLine(canvas))
    /\ tl_pc' = "done"
    /\ UNCHANGED <<now, tasks, ret, file, date, pos_of_now, pending, placed, lockVars>>

NextTimeline == PopulateTask \/ PopulateIndexAndLine \/ DrawRest

SpecTimeline == InitTimeline /\ [][NextTimeline]_vars

(***************************************************************************)
(* task.rs: the constructors, start and complete.  t is the instant        *)
(* Local::now() returns.                                                   *)
(***************************************************************************)
\* Task::new_immediate_task
NewImmediateTask(description, t) ==
    [description |-> description, planned_start |-> None, planned_complete |-> None,
     actual_start |-> Some(t), actual_complete |-> None, status |-> "Ongoing",
     is_deleted |-> FALSE]

C24_Mut_NewPlannedTask(description, start, end, t) ==
    [description |-> description, planned_start |-> Some(start),
     planned_complete |-> Some(end), actual_start |-> None,
     actual_complete |-> None,
     status |-> IF t >= start THEN "Overdue" ELSE "Planned", is_deleted |-> FALSE]

\* Task::new_planned_task
NewPlannedTask(description, start, end, t) ==
    [description |-> description, planned_start |-> Some(start),
     planned_complete |-> Some(end), actual_start |-> None,
     actual_complete |-> None,
     status |-> IF t > start THEN "Overdue" ELSE "Planned", is_deleted |-> FALSE]

\* Task::new_backlog_task
NewBacklogTask(description) ==
    [description |-> description, planned_start |-> None, planned_complete |-> None,
     actual_start |-> None, actual_complete |-> None, status |-> "Backlog",
     is_deleted |-> FALSE]

C25_Mut_TaskStart(self, t) ==
    IF self.status = "Complete" THEN self
    ELSE [self EXCEPT !.actual_start = Some(t), !.status = "Ongoing"]

\* Task::start
TaskStart(self, t) == [self EXCEPT !.actual_start = Some(t), !.status = "Ongoing"]

\* Task::complete
TaskComplete(self, t) == [self EXCEPT !.actual_complete = Some(t), !.status = "Complete"]

\* get_duration asserts that t1 is later than t0
GetDurationPanics(t0, t1) == ~(t1 > t0)

\* Task::render: whether it panics when Local::now() returns t, in the unwrap
\* or in the assertion of get_duration that get_render_status_string reaches
RenderPanics(self, t) ==
    /\ ~self.is_deleted
    /\ CASE self.status = "Backlog" -> FALSE
         [] self.status = "Planned" ->
                \/ ~IsSome(self.planned_start)
                \/ GetDurationPanics(t, Unwrap(self.planned_start))
         [] self.status = "Overdue" ->
                \/ ~IsSome(self.planned_start)
                \/ GetDurationPanics(Unwrap(self.planned_start), t)
         [] self.status = "Ongoing" ->
                \/ ~IsSome(self.actual_start)
                \/ GetDurationPanics(Unwrap(self.actual_start), t)
         [] self.status = "Complete" ->
                \/ ~IsSome(self.actual_complete)
                \/ GetDurationPanics(Unwrap(self.actual_complete), t)

(***************************************************************************)
(* SpecPos: get_pos_in_row called with instants around 08:00 of the day    *)
(* the clock reads.                                                        *)
(***************************************************************************)
\* how many steps of five minutes before and after 08:00 the instants span
MaxSteps == 18

PosInstants == {At(0, START_HOUR, 0) + 5 * k : k \in -MaxSteps..MaxSteps}

InitPos ==
    /\ now \in ClockReadings
    /\ tasks = <<>>
    /\ ret = NoRet
    /\ file = <<>>
    /\ TimelineIdle
    /\ LockIdle

DoGetPosInRow ==
    /\ ret.op = "none"
    /\ \E dt \in PosInstants :
          ret' = [op |-> "get_pos_in_row", dt |-> dt, value |-> GetPosInRow(dt, now)]
    /\ UNCHANGED <<now, tasks, file, timelineVars, lockVars>>

NextPos == DoGetPosInRow

SpecPos == InitPos /\ [][NextPos]_vars

(***************************************************************************)
(* SpecCreate: one of the three constructors called with any description   *)
(* and, for a planned task, any pair of instants before, at or after the   *)
(* reading of the clock.                                                   *)
(***************************************************************************)
CreateDescriptions == {"", "u"}
CreateInstants == SortInstants \cup ClockReadings

InitCreate ==
    /\ now \in ClockReadings
    /\ tasks = <<>>
    /\ ret = NoRet
    /\ file = <<>>
    /\ TimelineIdle
    /\ LockIdle

DoNewImmediateTask ==
    /\ ret.op = "none"
    /\ \E description \in CreateDescriptions, t \in {now} \cup LaterClock(now) :
          /\ now' = t
          /\ tasks' = <<NewImmediateTask(description, t)>>
          /\ ret' = [op |-> "new_immediate_task", description |-> description]
    /\ UNCHANGED <<file, timelineVars, lockVars>>

DoNewPlannedTask ==
    /\ ret.op = "none"
    /\ \E description \in CreateDescriptions, start \in CreateInstants,
          end \in CreateInstants, t \in {now} \cup LaterClock(now) :
          /\ now' = t
          /\ tasks' = <<NewPlannedTask(description, start, end, t)>>
          /\ ret' = [op |-> "new_planned_task", description |-> description,
                     start |-> start, end |-> end]
    /\ UNCHANGED <<file, timelineVars, lockVars>>

DoNewBacklogTask ==
    /\ ret.op = "none"
    /\ \E description \in CreateDescriptions :
          /\ tasks' = <<NewBacklogTask(description)>>
          /\ ret' = [op |-> "new_backlog_task", description |-> description]
    /\ UNCHANGED <<now, file, timelineVars, lockVars>>

NextCreate == DoNewImmediateTask \/ DoNewPlannedTask \/ DoNewBacklogTask

SpecCreate == InitCreate /\ [][NextCreate]_vars

(***************************************************************************)
(* manager.rs: the file, the prompts, the commands.                        *)
(***************************************************************************)
\* datetime_opt_from_string
DatetimeOptFromString(s) == IF s = <<>> THEN None ELSE Some(ParseFromRfc3339(s))

\* record_to_task: whether one of its panics is reached
RecordToTaskPanics(record) ==
    LET planned_start == DatetimeOptFromString(record[2])
        planned_complete == DatetimeOptFromString(record[3])
        actual_start == DatetimeOptFromString(record[4])
        actual_complete == DatetimeOptFromString(record[5])
    IN  \/ Len(record) # 5
        \/ IsSome(planned_start) # IsSome(planned_complete)
        \/ IsSome(planned_start) /\ Unwrap(planned_start) > Unwrap(planned_complete)
        \/ /\ IsSome(actual_start)
           /\ IsSome(actual_complete)
           /\ Unwrap(actual_start) > Unwrap(actual_complete)

\* record_to_task: the task it returns (is_deleted as every constructor sets it)
RecordToTask(record) ==
    [description |-> record[1],
     planned_start |-> DatetimeOptFromString(record[2]),
     planned_complete |-> DatetimeOptFromString(record[3]),
     actual_start |-> DatetimeOptFromString(record[4]),
     actual_complete |-> DatetimeOptFromString(record[5]),
     status |-> "Planned", is_deleted |-> FALSE]

\* the path with no file at it: what file holds until dump_tasks first
\* creates it (no record dump_tasks writes has fewer than five fields)
NoFile == <<<<>>>>

\* the records the reader yields; from_path fails when there is no file,
\* and load_tasks_from_file returns the empty vector
FileRecords(f) == IF f = NoFile THEN <<>> ELSE f

\* load_tasks_from_file on the file f
LoadTasksFromFilePanics(f) ==
    \E i \in 1..Len(FileRecords(f)) : RecordToTaskPanics(FileRecords(f)[i])
LoadTasksFromFile(f) ==
    [i \in 1..Len(FileRecords(f)) |-> RecordToTask(FileRecords(f)[i])]

\* A usize typed at a prompt, as its distance n from 0 or from usize::MAX
Usize(n) == [from_max |-> FALSE, n |-> n]
UsizeFromMax(n) == [from_max |-> TRUE, n |-> n]

\* duration as i64: a usize above i64::MAX wraps to a negative number
AsI64(u) == IF u.from_max THEN -1 - u.n ELSE u.n

\* get_planned_pair, for what the two prompts return
GetPlannedPair(start_dt, duration) ==
    <<Some(start_dt), Some(start_dt + AsI64(duration))>>

\* whether the last operation ended in a panic, and whether the process of
\* the manager is in its command loop
Panicked == IF "panicked" \in DOMAIN ret THEN ret.panicked ELSE FALSE
Running == ret.op # "quit" /\ ~Panicked

\* the instants Local::now() can return in the next command
NextClock == {now} \cup LaterClock(now)

(***************************************************************************)
(* SpecManager: the command loop, from the first launch, with no file.     *)
(***************************************************************************)
\* the longest collection the commands build
MaxTasks == 2

\* what the prompts are answered with: a date and time, the minutes planned
DatetimeInputs == {At(0, 9, 15)}
DurationInputs == {Usize(PlanMinutes), UsizeFromMax(0)}
NewDescriptions == {"u"}
\* the text typed at the description prompt of edit: empty keeps the old one
EditDescriptions == {""}
EditOperation == {"Ignore", "Reset", "Update"}

\* the answers edit_task is given: the description, then for the planned
\* pair, the actual start and the actual complete an operation and, for an
\* update, the value
PlannedAnswers ==
    {[op |-> "Ignore"], [op |-> "Reset"]} \cup
    {[op |-> "Update", start_dt |-> s, duration |-> d] :
        s \in DatetimeInputs, d \in DurationInputs}
ActualAnswers ==
    {[op |-> "Ignore"], [op |-> "Reset"]} \cup
    {[op |-> "Update", dt |-> s] : s \in DatetimeInputs}
EditInputs ==
    [new_description : EditDescriptions, planned : PlannedAnswers,
     start : ActualAnswers, complete : ActualAnswers]

\* the list options an ls command gives
LsOptions == {o \in ListOptions : o.date_filter = <<"Equal", 0>>}

\* Manager::new and the refresh start_loop begins with, on a first launch
InitManager ==
    /\ now = At(0, 9, 1)
    /\ tasks = <<>>
    /\ ret = [op |-> "launch", panicked |-> FALSE]
    /\ file = NoFile
    /\ TimelineIdle
    /\ LockIdle

\* Manager::new_task
NewTask ==
    /\ Running
    /\ Len(tasks) < MaxTasks
    /\ \E t \in NextClock :
          \E description \in NewDescriptions :
          \E task \in {NewImmediateTask(description, t), NewBacklogTask(description)} \cup
                      {NewPlannedTask(description,
                                      Unwrap(GetPlannedPair(start_dt, duration)[1]),
                                      Unwrap(GetPlannedPair(start_dt, duration)[2]), t) :
                          start_dt \in DatetimeInputs, duration \in DurationInputs} :
              /\ now' = t
              /\ tasks' = Append(tasks, task)
              /\ file' = DumpTasks(tasks')
              /\ ret' = [op |-> "new", index |-> Len(tasks), out |-> "task created"]
    /\ UNCHANGED <<timelineVars, lockVars>>

\* the test each indexed command begins with: self.tasks.len() <= index
C15_Mut_IndexOutOfRange(v, index) == Len(v) < index
IndexOutOfRange(v, index) == Len(v) <= index

\* the bounds check of Vec indexing and of Vec::remove: the process aborts
IndexPanics(v, index) == ~(index < Len(v))

\* what a command leaves when that bounds check fails
IndexPanic(op, index) ==
    /\ ret' = [op |-> op, index |-> index, out |-> "", panicked |-> TRUE]
    /\ UNCHANGED <<tasks, file>>

\* Manager::start_task
StartTask ==
    /\ Running
    /\ \E index \in 0..MaxTasks, t \in NextClock :
          /\ now' = t
          /\ IF IndexOutOfRange(tasks, index)
             THEN /\ ret' = [op |-> "start", index |-> index, out |-> "index out of range"]
                  /\ UNCHANGED <<tasks, file>>
             ELSE IF IndexPanics(tasks, index) THEN IndexPanic("start", index)
             ELSE /\ tasks' = [tasks EXCEPT ![index + 1] = TaskStart(@, t)]
                  /\ file' = DumpTasks(tasks')
                  /\ ret' = [op |-> "start", index |-> index, out |-> "task started"]
    /\ UNCHANGED <<timelineVars, lockVars>>

\* Manager::complete_task
CompleteTask ==
    /\ Running
    /\ \E index \in 0..MaxTasks, t \in NextClock :
          /\ now' = t
          /\ IF IndexOutOfRange(tasks, index)
             THEN /\ ret' = [op |-> "complete", index |-> index,
                             out |-> "index out of range"]
                  /\ UNCHANGED <<tasks, file>>
             ELSE IF IndexPanics(tasks, index) THEN IndexPanic("complete", index)
             ELSE /\ tasks' = [tasks EXCEPT ![index + 1] = TaskComplete(@, t)]
                  /\ file' = DumpTasks(tasks')
                  /\ ret' = [op |-> "complete", index |-> index, out |-> "task completed"]
    /\ UNCHANGED <<timelineVars, lockVars>>

C28_Mut_Remove(v, index) == SubSeq(v, 1, index + 1) \o SubSeq(v, index + 3, Len(v))

\* Vec::remove
Remove(v, index) == SubSeq(v, 1, index) \o SubSeq(v, index + 2, Len(v))

\* Manager::delete_task
DeleteTask ==
    /\ Running
    /\ \E index \in 0..MaxTasks, t \in NextClock :
          /\ now' = t
          /\ IF IndexOutOfRange(tasks, index)
             THEN /\ ret' = [op |-> "delete", index |-> index,
                             out |-> "index out of range"]
                  /\ UNCHANGED <<tasks, file>>
             ELSE IF IndexPanics(tasks, index) THEN IndexPanic("delete", index)
             ELSE /\ tasks' = Remove(tasks, index)
                  /\ file' = DumpTasks(tasks')
                  /\ ret' = [op |-> "delete", index |-> index, out |-> "task deleted"]
    /\ UNCHANGED <<timelineVars, lockVars>>

C31_Mut_Edited(task, in, t) ==
    LET described == IF in.new_description # ""
                     THEN [task EXCEPT !.description = in.new_description]
                     ELSE task
        planned == CASE in.planned.op = "Ignore" -> described
                     [] in.planned.op = "Reset" ->
                            [described EXCEPT !.planned_start = None,
                                              !.planned_complete = None]
                     [] in.planned.op = "Update" ->
                            LET pair == GetPlannedPair(in.planned.start_dt,
                                                       in.planned.duration)
                            IN  [described EXCEPT !.planned_start = pair[1],
                                                  !.planned_complete = pair[2]]
        started == CASE in.start.op = "Ignore" -> planned
                     [] in.start.op = "Reset" -> [planned EXCEPT !.actual_start = None]
                     [] in.start.op = "Update" ->
                            [planned EXCEPT !.actual_start = Some(in.start.dt)]
        completed == CASE in.complete.op = "Ignore" -> started
                       [] in.complete.op = "Reset" ->
                              [started EXCEPT !.actual_complete = None]
                       [] in.complete.op = "Update" ->
                              [started EXCEPT !.actual_complete = Some(in.complete.dt)]
    IN  completed

\* edit_task on one task: the answers applied in the order of the prompts,
\* then update_status at the instant t
Edited(task, in, t) ==
    LET described == IF in.new_description # ""
                     THEN [task EXCEPT !.description = in.new_description]
                     ELSE task
        planned == CASE in.planned.op = "Ignore" -> described
                     [] in.planned.op = "Reset" ->
                            [described EXCEPT !.planned_start = None,
                                              !.planned_complete = None]
                     [] in.planned.op = "Update" ->
                            LET pair == GetPlannedPair(in.planned.start_dt,
                                                       in.planned.duration)
                            IN  [described EXCEPT !.planned_start = pair[1],
                                                  !.planned_complete = pair[2]]
        started == CASE in.start.op = "Ignore" -> planned
                     [] in.start.op = "Reset" -> [planned EXCEPT !.actual_start = None]
                     [] in.start.op = "Update" ->
                            [planned EXCEPT !.actual_start = Some(in.start.dt)]
        completed == CASE in.complete.op = "Ignore" -> started
                       [] in.complete.op = "Reset" ->
                              [started EXCEPT !.actual_complete = None]
                       [] in.complete.op = "Update" ->
                              [started EXCEPT !.actual_complete = Some(in.complete.dt)]
    IN  UpdateStatus(completed, t)

\* Manager::edit_task, every prompt answered
EditTask ==
    /\ Running
    /\ \E index \in 0..MaxTasks, t \in NextClock :
          /\ now' = t
          /\ IF IndexOutOfRange(tasks, index)
             THEN /\ ret' = [op |-> "edit", index |-> index, out |-> "index out of range"]
                  /\ UNCHANGED <<tasks, file>>
             ELSE IF IndexPanics(tasks, index) THEN IndexPanic("edit", index)
             ELSE \E in \in EditInputs :
                  /\ tasks' = [tasks EXCEPT ![index + 1] = Edited(@, in, t)]
                  /\ file' = DumpTasks(tasks')
                  /\ ret' = [op |-> "edit", index |-> index, out |-> "task edited"]
    /\ UNCHANGED <<timelineVars, lockVars>>

\* Manager::list_tasks: every status refreshed at the instant t, then every
\* task that satisfies the option rendered, the clock read again at u; shown
\* holds the indices render is called with, the last of them one on which
\* it panics
ListTasks ==
    /\ Running
    /\ \E option \in LsOptions, t \in NextClock :
          \E u \in {t} \cup LaterClock(t) :
              LET fresh == UpdateStatusOfAllTasks(tasks, [i \in 1..Len(tasks) |-> t])
                  stops == {i \in 1..Len(fresh) :
                               Satisfy(fresh[i], option) /\ RenderPanics(fresh[i], u)}
              IN  /\ now' = u
                  /\ tasks' = fresh
                  /\ ret' = [op |-> "list",
                             shown |-> {i - 1 : i \in {j \in 1..Len(fresh) :
                                 /\ Satisfy(fresh[j], option)
                                 /\ \A k \in stops : j <= k}},
                             panicked |-> stops # {}]
    /\ UNCHANGED <<file, timelineVars, lockVars>>

\* Manager::sort_tasks in the command loop
SortCommand == Running /\ SortTasks

\* the q command, or a prompt that fails: start_loop returns
Quit ==
    /\ Running
    /\ ret' = [op |-> "quit"]
    /\ UNCHANGED <<now, tasks, file, timelineVars, lockVars>>

\* a later launch: Manager::new loads the file the last run left, and
\* start_loop refreshes every status
LoadAndRefresh ==
    /\ \E t \in NextClock :
          /\ now' = t
          /\ IF LoadTasksFromFilePanics(file)
             THEN /\ tasks' = <<>>
                  /\ ret' = [op |-> "launch", panicked |-> TRUE]
             ELSE /\ tasks' = UpdateStatusOfAllTasks(LoadTasksFromFile(file),
                                                     [i \in 1..Len(file) |-> t])
                  /\ ret' = [op |-> "launch", panicked |-> FALSE]
    /\ UNCHANGED <<file, timelineVars, lockVars>>

Launch == ret.op = "quit" /\ LoadAndRefresh

NextManager ==
    \/ NewTask \/ StartTask \/ CompleteTask \/ DeleteTask \/ EditTask
    \/ ListTasks \/ SortCommand \/ Quit \/ Launch

SpecManager == InitManager /\ [][NextManager]_vars

(***************************************************************************)
(* SpecLl: the ll command on a collection longer than the alphabet.        *)
(* list_tasks_with_timeline refreshes, selects, builds the timeline, draw  *)
(* walks through the selected tasks, and the selected tasks are rendered   *)
(* below the chart.  ret holds the locals of list_tasks_with_timeline.     *)
(***************************************************************************)
\* the longest collection the ll command is applied to
MaxStore == 28

\* .take(26) in list_tasks_with_timeline, and the assertion of Timeline::new
TakeCount == 26
MaxLetters == 26

\* a task planned within the displayed hours of the target date; a backlog
\* task, which only ll with the backlog flag selects; a task completed
\* before it was started, on which draw aborts
PlannedTask ==
    [description |-> "t", planned_start |-> Some(At(TargetDate, 8, 20)),
     planned_complete |-> Some(At(TargetDate, 9, 0)), actual_start |-> None,
     actual_complete |-> None, status |-> "Planned", is_deleted |-> FALSE]
BacklogTask == NewBacklogTask("t")
RestartedTask ==
    [PlannedTask EXCEPT !.actual_start = Some(At(TargetDate, 9, 0)),
                        !.actual_complete = Some(At(TargetDate, 8, 10))]

\* the collections: planned tasks, with at most one other task among them
StoreCollections ==
    {[i \in 1..n |-> IF i = k THEN x ELSE PlannedTask] :
        n \in 0..MaxStore, k \in 0..MaxStore, x \in {BacklogTask, RestartedTask}}

\* the options ll parses to for today, without and with the flag
LlOptions ==
    {[date_filter |-> <<"Equal", DateNaive(now)>>, include_backlog |-> b,
      is_verbose |-> FALSE, has_timeline |-> TRUE] : b \in BOOLEAN}

InitLl ==
    /\ now = At(TargetDate, 10, 0)
    /\ tasks \in StoreCollections
    /\ ret = NoRet
    /\ file = DumpTasks(tasks)
    /\ TimelineIdle
    /\ LockIdle

\* Iterator::take
Take(s, n) == SubSeq(s, 1, IF Len(s) < n THEN Len(s) ELSE n)

\* .iter().enumerate().filter(|(_, task)| task.satisfy(option))
Satisfying(ts, option) ==
    SelectSeq([i \in 1..Len(ts) |-> [index |-> i - 1, task |-> ts[i]]],
              LAMBDA pair : Satisfy(pair.task, option))

\* the vector list_tasks_with_timeline gives to Timeline::new
C22_Mut_Selected(ts, option) == Satisfying(ts, option)
Selected(ts, option) == Take(Satisfying(ts, option), TakeCount)

\* assert_eq!(op, DateFilterOp::Equal) in list_tasks_with_timeline
DateFilterAssertPanics(option) == option.date_filter[1] # "Equal"

\* assert!(tasks.len() <= 26) in Timeline::new
TimelineNewPanics(visible) == ~(Len(visible) <= MaxLetters)

\* Manager::list_tasks_with_timeline up to Timeline::new
ListTasksWithTimeline ==
    /\ ret.op = "none"
    /\ \E option \in LlOptions :
          LET fresh == UpdateStatusOfAllTasks(tasks, [i \in 1..Len(tasks) |-> now])
              visible == Selected(fresh, option)
          IN  /\ tasks' = fresh
              /\ IF DateFilterAssertPanics(option) \/ TimelineNewPanics(visible)
                 THEN /\ ret' = [op |-> "ll", option |-> option, visible |-> visible,
                                 walked |-> 0, rendered |-> <<>>, pc |-> "assert",
                                 panicked |-> TRUE]
                      /\ UNCHANGED <<timelineVars, lockVars>>
                 ELSE /\ ret' = [op |-> "ll", option |-> option, visible |-> visible,
                                 walked |-> 0, rendered |-> <<>>, pc |-> "draw",
                                 panicked |-> FALSE]
                      /\ date' = option.date_filter[2]
                      /\ pos_of_now' = IF DateNaive(now) = date'
                                       THEN Some(GetPosInRow(now, now)) ELSE None
                      /\ canvas' = <<>>
                      /\ pending' = <<>>
                      /\ placed' = <<>>
                      /\ tl_pc' = "tasks"
    /\ UNCHANGED <<now, file, lockVars>>

\* draw takes the next of the selected tasks: populate_task with the letter
\* of its place in the selection
WalkTask ==
    /\ ret.op = "ll"
    /\ tl_pc = "tasks"
    /\ pending = <<>>
    /\ ret.walked < Len(ret.visible)
    /\ pending' = PopulateTaskCalls(ret.visible[ret.walked + 1].task,
                                    TimelineIndexToChar(ret.walked))
    /\ ret' = [ret EXCEPT !.walked = @ + 1]
    /\ UNCHANGED <<now, tasks, file, date, pos_of_now, canvas, placed, tl_pc, lockVars>>

\* the calls of a task placed on the canvas
PlaceLine == ret.op = "ll" /\ PopulateIndexAndLine

\* the rest of draw, after the last selected task
DrawChart ==
    /\ ret.op = "ll"
    /\ ret.walked = Len(ret.visible)
    /\ DrawRest

\* the renders below the chart, each with the store index and the letter of
\* the place in the selection, the clock read again at u; a render that
\* panics ends them
RenderBelow ==
    /\ ret.op = "ll"
    /\ ret.pc = "draw"
    /\ tl_pc = "done"
    /\ \E u \in NextClock :
          LET n == Len(ret.visible)
              stops == {k \in 1..n : RenderPanics(ret.visible[k].task, u)}
              m == IF stops = {} THEN n
                   ELSE (CHOOSE k \in stops : \A j \in stops : k <= j) - 1
          IN  /\ now' = u
              /\ ret' = [ret EXCEPT
                           !.rendered = [k \in 1..m |->
                               [index |-> ret.visible[k].index,
                                timeline_index |-> TimelineIndexToChar(k - 1)]],
                           !.pc = "rendered",
                           !.panicked = stops # {}]
    /\ UNCHANGED <<tasks, file, timelineVars, lockVars>>

NextLl == ListTasksWithTimeline \/ WalkTask \/ PlaceLine \/ DrawChart \/ RenderBelow

SpecLl == InitLl /\ [][NextLl]_vars

(***************************************************************************)
(* SpecStep: one command of the loop on a collection of any tasks the      *)
(* commands leave, the clock at 09:01 of day 0.                            *)
(***************************************************************************)
\* the tasks of the collection: planned or not, started or not, completed
\* or not, the status as a refresh before or after 09:00 left it, or as
\* new_immediate_task sets it
StepTasks ==
    {UpdateStatus(
        [description |-> "u", planned_start |-> p[1], planned_complete |-> p[2],
         actual_start |-> a, actual_complete |-> c, status |-> "Planned",
         is_deleted |-> FALSE], t) :
        p \in {<<None, None>>, GetPlannedPair(At(0, 9, 15), Usize(PlanMinutes))},
        a \in {None, Some(At(0, 9, 0)), Some(At(0, 9, 15))},
        c \in {None, Some(At(0, 9, 0))},
        t \in {At(0, 9, 0), At(0, 9, 1)}}
    \cup {NewImmediateTask("u", At(0, 9, 1))}

InitStep ==
    /\ now = At(0, 9, 1)
    /\ tasks \in SeqsUpTo(StepTasks, MaxTasks)
    /\ ret = NoRet
    /\ file \in {DumpTasks(tasks)} \cup (IF tasks = <<>> THEN {NoFile} ELSE {})
    /\ TimelineIdle
    /\ LockIdle

\* Command::Empty and Command::Help: nothing but the usage is printed
HelpOrEmpty ==
    /\ Running
    /\ ret' = [op |-> "help"]
    /\ UNCHANGED <<now, tasks, file, timelineVars, lockVars>>

\* the command given first
First(Command) == ret.op = "none" /\ Command

NextStep ==
    \/ First(NewTask) \/ First(StartTask) \/ First(CompleteTask)
    \/ First(DeleteTask) \/ First(EditTask) \/ First(ListTasks)
    \/ First(SortCommand) \/ First(HelpOrEmpty) \/ First(LoadAndRefresh)
    \/ ListTasksWithTimeline \/ WalkTask \/ PlaceLine \/ DrawChart \/ RenderBelow

SpecStep == InitStep /\ [][NextStep]_vars

(***************************************************************************)
(* SpecCommand: an ls or ll line parsed by parse_command and, when it is   *)
(* a command, dispatched on an empty collection.                           *)
(***************************************************************************)
\* how many arguments follow the command word
MaxArgs == 2

\* the arguments typed: a date as an offset with each operator, the flags,
\* and words that are neither
DateWords == {<<"0">>, <<"1">>, <<"-", "1">>}
OperatorWords == {<<>>, <<"<">>, <<"<", "=">>, <<">">>, <<">", "=">>}
ArgumentWords ==
    {op \o d : op \in OperatorWords, d \in DateWords} \cup
    {<<"b">>, <<"v">>, <<"b", "v">>} \cup
    {<<"x">>, <<">">>, <<"=", "1">>}

ListLines ==
    {<<word>> \o rest : word \in {"ls", "ll"},
                        rest \in UNION {[1..n -> ArgumentWords] : n \in 0..MaxArgs}}

InitCommand ==
    /\ now = At(0, 9, 1)
    /\ tasks = <<>>
    /\ ret = NoRet
    /\ file = <<>>
    /\ TimelineIdle
    /\ LockIdle

\* parse_command on a line that begins with ls or ll
ParseCommand ==
    /\ ret.op = "none"
    /\ \E args \in ListLines :
          ret' = [op |-> "parse_command", args |-> args,
                  command |-> TryParseListOption(args, DateNaive(now))]
    /\ UNCHANGED <<now, tasks, file, timelineVars, lockVars>>

\* start_loop on the parsed line: "invalid command" for None, else
\* dispatch_command, which lists with or without the timeline
DispatchCommand ==
    /\ ret.op = "parse_command"
    /\ ret' = IF ~IsSome(ret.command)
              THEN [op |-> "invalid command", args |-> ret.args]
              ELSE [op |-> "dispatch_command", args |-> ret.args,
                    option |-> Unwrap(ret.command),
                    panicked |-> /\ Unwrap(ret.command).has_timeline
                                 /\ DateFilterAssertPanics(Unwrap(ret.command))]
    /\ UNCHANGED <<now, tasks, file, timelineVars, lockVars>>

NextCommand == ParseCommand \/ DispatchCommand

SpecCommand == InitCommand /\ [][NextCommand]_vars

(***************************************************************************)
(* SpecLock: main.rs, arenta_loop run by processes launched side by side   *)
(* or one after another.  Each process has its own Manager; the task file  *)
(* and the lock file are shared.  A panic ends the process where it is.    *)
(***************************************************************************)
\* how many processes are launched
MaxProcs == 2
\* the longest collection a process builds
MaxHeld == 1

Procs == 1..MaxProcs

\* where a process is: "main" (launched), "refused" (returned because the
\* lock file was there), "new" (before Manager::new), "loop" (in start_loop),
\* "remove" (before remove_file), "exited" (returned), "aborted" (panicked)

InitLock ==
    /\ now = At(0, 9, 1)
    /\ tasks = <<>>
    /\ ret = NoRet
    /\ file = NoFile
    /\ TimelineIdle
    /\ lock_file = None
    /\ procs = [p \in Procs |-> [pc |-> "main", tasks |-> <<>>]]

C33_Mut_CreateNewFails(lock) == FALSE

\* File::options().create_new(true).open(..): an error when the file exists,
\* the test and the creation being one step of the file system
CreateNewFails(lock) == IsSome(lock)

\* arenta_loop up to the return of open
OpenLockFile(p) ==
    /\ procs[p].pc = "main"
    /\ IF CreateNewFails(lock_file)
       THEN /\ procs' = [procs EXCEPT ![p].pc = "refused"]
            /\ UNCHANGED lock_file
       ELSE /\ procs' = [procs EXCEPT ![p].pc = "new"]
            /\ lock_file' = Some(p)
    /\ UNCHANGED <<now, tasks, ret, file, timelineVars>>

\* Manager::new and the refresh start_loop begins with
ManagerNew(p) ==
    /\ procs[p].pc = "new"
    /\ \E t \in NextClock :
          /\ now' = t
          /\ IF LoadTasksFromFilePanics(file)
             THEN procs' = [procs EXCEPT ![p].pc = "aborted"]
             ELSE procs' = [procs EXCEPT
                     ![p].pc = "loop",
                     ![p].tasks = UpdateStatusOfAllTasks(LoadTasksFromFile(file),
                                      [i \in 1..Len(FileRecords(file)) |-> t])]
    /\ UNCHANGED <<tasks, ret, file, timelineVars, lock_file>>

\* the new command in the loop of p
LoopNewTask(p) ==
    /\ procs[p].pc = "loop"
    /\ Len(procs[p].tasks) < MaxHeld
    /\ \E t \in NextClock :
          \E task \in {NewBacklogTask("u")} \cup
                      {NewPlannedTask("u",
                                      Unwrap(GetPlannedPair(start_dt, duration)[1]),
                                      Unwrap(GetPlannedPair(start_dt, duration)[2]), t) :
                          start_dt \in DatetimeInputs, duration \in DurationInputs} :
              /\ now' = t
              /\ procs' = [procs EXCEPT ![p].tasks = Append(@, task)]
              /\ file' = DumpTasks(procs'[p].tasks)
    /\ UNCHANGED <<tasks, ret, timelineVars, lock_file>>

\* the delete command in the loop of p, with index 0
LoopDeleteTask(p) ==
    /\ procs[p].pc = "loop"
    /\ ~IndexOutOfRange(procs[p].tasks, 0)
    /\ procs' = [procs EXCEPT ![p].tasks = Remove(@, 0)]
    /\ file' = DumpTasks(procs'[p].tasks)
    /\ UNCHANGED <<now, tasks, ret, timelineVars, lock_file>>

\* the ls command in the loop of p: the refresh at t, the renders at u, the
\* process aborted by a render that panics
LoopListTasks(p) ==
    /\ procs[p].pc = "loop"
    /\ \E t \in NextClock :
          \E u \in {t} \cup LaterClock(t) :
              LET fresh == UpdateStatusOfAllTasks(procs[p].tasks,
                               [i \in 1..Len(procs[p].tasks) |-> t])
              IN  /\ now' = u
                  /\ procs' = [procs EXCEPT
                        ![p].tasks = fresh,
                        ![p].pc = IF \E i \in 1..Len(fresh) : RenderPanics(fresh[i], u)
                                  THEN "aborted" ELSE "loop"]
    /\ UNCHANGED <<tasks, ret, file, timelineVars, lock_file>>

\* start_loop returns: the q command, or a prompt that fails
LoopReturns(p) ==
    /\ procs[p].pc = "loop"
    /\ procs' = [procs EXCEPT ![p].pc = "remove"]
    /\ UNCHANGED <<now, tasks, ret, file, timelineVars, lock_file>>

\* std::fs::remove_file(lock_file) and the return of arenta_loop
RemoveLockFile(p) ==
    /\ procs[p].pc = "remove"
    /\ lock_file' = None
    /\ procs' = [procs EXCEPT ![p].pc = "exited"]
    /\ UNCHANGED <<now, tasks, ret, file, timelineVars>>

NextLock ==
    \E p \in Procs :
        \/ OpenLockFile(p) \/ ManagerNew(p) \/ LoopNewTask(p) \/ LoopDeleteTask(p)
        \/ LoopListTasks(p) \/ LoopReturns(p) \/ RemoveLockFile(p)

SpecLock == InitLock /\ [][NextLock]_vars

(***************************************************************************)
(* Claims about update_status, checked under SpecTask.                     *)
(***************************************************************************)
C1_Done == IsSome(tasks[1].actual_complete) /\ Unwrap(tasks[1].actual_complete) < now
C1_Begun == IsSome(tasks[1].actual_start) /\ Unwrap(tasks[1].actual_start) < now
C1_Due == IsSome(tasks[1].planned_start) /\ Unwrap(tasks[1].planned_start) < now

\* C1: right after update_status the status is the first rule that matches,
\* top-down, at the instant now: Complete, else Ongoing, else Overdue, else
\* Planned, else Backlog; it is decided by the four timestamps and now alone,
\* whatever the status was before, and a second call at the same now changes
\* nothing.
C1_StatusIsFirstMatchingRule ==
    ret.op = "update_status" =>
        /\ (tasks[1].status = "Complete") <=> C1_Done
        /\ (tasks[1].status = "Ongoing") <=> (~C1_Done /\ C1_Begun)
        /\ (tasks[1].status = "Overdue") <=> (~C1_Done /\ ~C1_Begun /\ C1_Due)
        /\ (tasks[1].status = "Planned") <=>
              (~C1_Done /\ ~C1_Begun /\ ~C1_Due /\ IsSome(tasks[1].planned_start))
        /\ (tasks[1].status = "Backlog") <=>
              (~C1_Done /\ ~C1_Begun /\ ~IsSome(tasks[1].planned_start))
        /\ UpdateStatus(tasks[1], now).status = tasks[1].status

\* A task that was Backlog, with actual_complete and planned_start both in the
\* past, has been refreshed to Complete, not Overdue.
C1_Witness ==
    /\ ret.op = "update_status"
    /\ ret.before = "Backlog"
    /\ tasks[1].status = "Complete"
    /\ C1_Due
    /\ C1_Begun

(***************************************************************************)
(* Claims about satisfy, checked under SpecTask.                           *)
(***************************************************************************)
\* the date x compares true to the date d under the operator
C5_Compares(op, x, d) ==
    \/ op \in {"Earlier", "EarlierEqual"} /\ x < d
    \/ op \in {"EarlierEqual", "Equal", "LaterEqual"} /\ x = d
    \/ op \in {"Later", "LaterEqual"} /\ x > d

\* one of the task's set timestamps compares true under the filter
C5_SomeTimestampCompares(task, option) ==
    \E o \in {task.planned_start, task.planned_complete,
              task.actual_start, task.actual_complete} :
        /\ o # None
        /\ C5_Compares(option.date_filter[1], DateNaive(o[1]), option.date_filter[2])

\* the status is what update_status gives at this instant, as it is whenever
\* list_tasks calls satisfy
C5_Refreshed == tasks[1].status = UpdateStatus(tasks[1], now).status

\* C5 as stated: satisfy is true exactly when (the status is Backlog and
\* includeBacklog is true) or one of the set timestamps compares true.
C5_Original ==
    (ret.op = "satisfy" /\ C5_Refreshed) =>
        (ret.value <=>
            \/ tasks[1].status = "Backlog" /\ ret.option.include_backlog
            \/ C5_SomeTimestampCompares(tasks[1], ret.option))

\* C5, amended: satisfy is true exactly when the status is Backlog and
\* includeBacklog is true, or the status is not Backlog and one of the set
\* timestamps compares true; an unset timestamp never compares true.
C5_SatisfyByStatus ==
    ret.op = "satisfy" =>
        (ret.value <=>
            \/ tasks[1].status = "Backlog" /\ ret.option.include_backlog
            \/ tasks[1].status # "Backlog"
               /\ C5_SomeTimestampCompares(tasks[1], ret.option))

\* A refreshed Backlog task whose actual_start (not yet reached) is on the
\* reference date is left out by an equality filter without the backlog flag.
C5_Witness ==
    /\ ret.op = "satisfy"
    /\ C5_Refreshed
    /\ tasks[1].status = "Backlog"
    /\ IsSome(tasks[1].actual_start)
    /\ ret.option.date_filter = <<"Equal", DateNaive(Unwrap(tasks[1].actual_start))>>
    /\ ~ret.option.include_backlog
    /\ ~ret.value

\* C6: a Backlog task satisfies no filter whose includeBacklog is false, and
\* a task that is not Backlog and has no timestamp set satisfies no filter.
C6_NeverSatisfies ==
    ret.op = "satisfy" =>
        /\ (tasks[1].status = "Backlog" /\ ~ret.option.include_backlog) => ~ret.value
        /\ (/\ tasks[1].status # "Backlog"
            /\ tasks[1].planned_start = None
            /\ tasks[1].planned_complete = None
            /\ tasks[1].actual_start = None
            /\ tasks[1].actual_complete = None) => ~ret.value

\* A Planned task with no timestamp at all was tried against a filter with the
\* backlog flag and did not satisfy it.
C6_Witness ==
    /\ ret.op = "satisfy"
    /\ tasks[1].status = "Planned"
    /\ tasks[1].planned_start = None
    /\ tasks[1].actual_start = None
    /\ tasks[1].actual_complete = None
    /\ ret.option.include_backlog
    /\ ~ret.value

(***************************************************************************)
(* Claims about has_higher_priority_than, checked under SpecPriority.      *)
(***************************************************************************)
\* the place of a status in the class order
C2_Rank(status) ==
    CASE status = "Overdue"  -> 1
      [] status = "Ongoing"  -> 2
      [] status = "Planned"  -> 3
      [] status = "Complete" -> 4
      [] status = "Backlog"  -> 5

\* C2: for two tasks of different status, A ranks above B exactly when A's
\* status comes strictly before B's in Overdue, Ongoing, Planned, Complete,
\* Backlog.
C2_ClassOrder ==
    (ret.op = "has_higher_priority_than" /\ tasks[1].status # tasks[2].status) =>
        /\ ~ret.panicked
        /\ ret.value <=> (C2_Rank(tasks[1].status) < C2_Rank(tasks[2].status))

\* A Complete task was compared with a Planned one and does not rank above it.
C2_Witness ==
    /\ ret.op = "has_higher_priority_than"
    /\ tasks[1].status = "Complete"
    /\ tasks[2].status = "Planned"
    /\ ~ret.value

\* C3: for two tasks of the same status with the relevant timestamp set on
\* both, A ranks above B exactly when: Overdue or Planned, A's planned_start
\* is earlier; Ongoing, A's actual_start is later; Complete, A's
\* actual_complete is later; never when the two timestamps are equal.
C3_TieBreak ==
    LET a == tasks[1]
        b == tasks[2]
    IN  (ret.op = "has_higher_priority_than" /\ a.status = b.status) =>
        /\ (a.status \in {"Overdue", "Planned"}
            /\ a.planned_start # None /\ b.planned_start # None) =>
                /\ ~ret.panicked
                /\ ret.value <=> (a.planned_start[1] < b.planned_start[1])
        /\ (a.status = "Ongoing"
            /\ a.actual_start # None /\ b.actual_start # None) =>
                /\ ~ret.panicked
                /\ ret.value <=> (a.actual_start[1] > b.actual_start[1])
        /\ (a.status = "Complete"
            /\ a.actual_complete # None /\ b.actual_complete # None) =>
                /\ ~ret.panicked
                /\ ret.value <=> (a.actual_complete[1] > b.actual_complete[1])

\* Two Ongoing tasks were compared and the one begun later ranks above.
C3_Witness ==
    /\ ret.op = "has_higher_priority_than"
    /\ tasks[1].status = "Ongoing"
    /\ tasks[2].status = "Ongoing"
    /\ tasks[1].actual_start # None
    /\ tasks[2].actual_start # None
    /\ tasks[1].actual_start[1] > tasks[2].actual_start[1]
    /\ ret.value

(***************************************************************************)
(* Claims about the sort command, checked under SpecSort.                  *)
(***************************************************************************)
C4_Fields(t) ==
    <<t.description, t.planned_start, t.planned_complete, t.actual_start,
      t.actual_complete>>

\* ts holds the tasks of us, each as many times
C4_SameTasks(ts, us) ==
    /\ Len(ts) = Len(us)
    /\ \A i \in 1..Len(ts) :
          Cardinality({j \in 1..Len(ts) : C4_Fields(ts[j]) = C4_Fields(ts[i])})
          = Cardinality({j \in 1..Len(us) : C4_Fields(us[j]) = C4_Fields(ts[i])})

\* no task of ts ranks above one placed before it, and the statuses come in
\* the order Overdue, Ongoing, Planned, Complete, Backlog
C4_InOrder(ts) ==
    \A i \in 1..Len(ts) : \A j \in i + 1..Len(ts) :
        /\ ~HasHigherPriorityPanics(ts[j], ts[i])
        /\ ~HasHigherPriorityThan(ts[j], ts[i])
        /\ C2_Rank(ts[i].status) <= C2_Rank(ts[j].status)

\* C4: a sort command leaves the collection holding the same tasks as before,
\* with no task ranking above one placed before it under the statuses
\* refreshed by the command, so that the tasks appear grouped Overdue,
\* Ongoing, Planned, Complete, Backlog.
C4_Sorted ==
    [][ret'.op = "sort" =>
        /\ ~ret'.panicked
        /\ C4_SameTasks(tasks', tasks)
        /\ C4_InOrder(tasks')
        /\ \A i \in 1..Len(tasks') :
              tasks'[i].status = UpdateStatus(tasks'[i], now').status]_vars

\* A sort command moved tasks and left three of them as Overdue, Ongoing,
\* Planned.
C4_Witness ==
    /\ ret.op = "sort"
    /\ ret.moved
    /\ Len(tasks) = 3
    /\ tasks[1].status = "Overdue"
    /\ tasks[2].status = "Ongoing"
    /\ tasks[3].status = "Planned"

(***************************************************************************)
(* Claims about the timeline, checked under SpecTimeline.                  *)
(***************************************************************************)
\* the minutes from 08:00 of the day of dt to dt
C7_MinutesOfOwnDay(dt) == dt - (DateNaive(dt) * MinutesPerDay + START_HOUR * 60)

\* pos is the tenth of those minutes, whichever way a remainder is rounded
C7_IsColumnOf(pos, dt) ==
    /\ pos * TIMELINE_TICK - C7_MinutesOfOwnDay(dt) < TIMELINE_TICK
    /\ C7_MinutesOfOwnDay(dt) - pos * TIMELINE_TICK < TIMELINE_TICK

\* C7: every column get_pos_in_row returns for a timestamp is the minutes
\* from 08:00 of the timestamp's own day to the timestamp, divided by 10,
\* whatever day the timestamp is on and whatever day it is drawn on.
C7_Original ==
    \A i \in DOMAIN pending :
        /\ IsSome(pending[i].start_dt) =>
              C7_IsColumnOf(pending[i].start_pos, Unwrap(pending[i].start_dt))
        /\ IsSome(pending[i].end_dt) =>
              C7_IsColumnOf(pending[i].end_pos, Unwrap(pending[i].end_dt))

\* row r of the task rows, which the scale lines move two rows down
TaskRow(r) == canvas[IF tl_pc = "done" THEN r + 3 ELSE r + 1]
TaskRowCount == IF tl_pc = "done" THEN Len(canvas) - 4 ELSE Len(canvas)

\* the cells of the task rows that hold an interval glyph are in columns lo..hi
C8_GlyphsWithin(lo, hi) ==
    \A r \in 0..TaskRowCount - 1 : \A c \in DOMAIN TaskRow(r) \ lo..hi :
        TaskRow(r)[c].content \notin {"-", "="}

\* c is the column of lo..hi nearest to x
C8_IsNearest(c, x, lo, hi) ==
    /\ c \in lo..hi
    /\ x < lo => c = lo
    /\ x > hi => c = hi
    /\ x \in lo..hi => c = x

\* C8 as stated: both endpoints of every interval drawn are in columns
\* 1..71 and no interval glyph is written outside columns 1..71.
C8_Original ==
    /\ \A i \in DOMAIN placed :
          /\ placed[i].start_pos \in 1..UI_MAX_WIDTH - 2
          /\ placed[i].end_pos \in 1..UI_MAX_WIDTH - 2
    /\ C8_GlyphsWithin(1, UI_MAX_WIDTH - 2)

\* C8: both endpoints of every interval drawn are the columns of 1..72
\* nearest to the projected columns, no interval glyph is written outside
\* columns 1..72, and a strong interval projected to columns -3 and 1 is
\* drawn from column 1 to column 1.
C8_ClampedToCanvas ==
    /\ \A i \in DOMAIN placed :
          /\ C8_IsNearest(placed[i].start_pos, placed[i].call.start_pos, 1, UI_MAX_WIDTH - 1)
          /\ C8_IsNearest(placed[i].end_pos, placed[i].call.end_pos, 1, UI_MAX_WIDTH - 1)
          /\ (placed[i].call.start_pos = -3 /\ placed[i].call.end_pos = 1) =>
                /\ TaskRow(placed[i].row)[1] = placed[i].call.pixel
                /\ TaskRow(placed[i].row)[0].content = placed[i].call.index
                /\ placed[i].start_pos = 1 /\ placed[i].end_pos = 1
    /\ C8_GlyphsWithin(1, UI_MAX_WIDTH - 1)

\* a strong interval projected to columns -3 and 1 and an interval projected
\* beyond the right edge have both been drawn
C8_Witness ==
    /\ \E i \in DOMAIN placed :
          /\ placed[i].call.start_pos = -3 /\ placed[i].call.end_pos = 1
          /\ placed[i].call.pixel.content = "="
    /\ \E i \in DOMAIN placed :
          /\ placed[i].call.end_pos > UI_MAX_WIDTH - 1
          /\ TaskRow(placed[i].row)[UI_MAX_WIDTH - 1] = placed[i].call.pixel

\* the rows of cv in which every cell of columns start_pos - 1..end_pos is empty
C9_Fits(cv, start_pos, end_pos) ==
    {r \in 0..Len(cv) - 1 : \A c \in (start_pos - 1)..end_pos : cv[r + 1][c].content = " "}

\* the cell of row r and column c of cv, empty in a row cv does not have yet
C9_Cell(cv, r, c) == IF r < Len(cv) THEN cv[r + 1][c] ELSE DefaultPixel

\* C9: an interval is placed in the lowest row whose cells of columns
\* start - 1..end are all empty, and in one new row only if there is no such
\* row; afterwards the cells start..end of that row hold the glyph, the cell
\* start - 1 the letter in the colour of the glyph, and every other cell of
\* the canvas is as it was.
C9_FirstFit ==
    [][placed' # placed =>
        LET p == placed'[Len(placed')]
            fits == C9_Fits(canvas, p.start_pos, p.end_pos)
        IN  /\ fits # {} =>
                  /\ p.row \in fits
                  /\ \A q \in fits : p.row <= q
                  /\ Len(canvas') = Len(canvas)
            /\ fits = {} =>
                  /\ p.row = Len(canvas)
                  /\ Len(canvas') = Len(canvas) + 1
            /\ \A c \in 0..UI_MAX_WIDTH - 1 :
                  canvas'[p.row + 1][c] =
                      IF c \in p.start_pos..p.end_pos THEN p.call.pixel
                      ELSE IF c = p.start_pos - 1
                      THEN Pixel(p.call.index, p.call.pixel.color)
                      ELSE C9_Cell(canvas, p.row, c)
            /\ \A r \in 0..Len(canvas) - 1 :
                  r # p.row => canvas'[r + 1] = canvas[r + 1]]_vars

\* the columns an interval takes, its letter included
C10_Columns(p) == (p.start_pos - 1)..p.end_pos

\* whether two intervals have a column in common, letters included
C10_Overlap(p, q) ==
    /\ p.start_pos - 1 <= p.end_pos /\ q.start_pos - 1 <= q.end_pos
    /\ p.start_pos - 1 <= q.end_pos /\ q.start_pos - 1 <= p.end_pos

\* an interval has been placed in row 0 that row 1 had room for too, and
\* another in a row that was appended for it
C9_Witness ==
    /\ \E j, k \in DOMAIN placed :
          /\ j < k
          /\ placed[j].row = 1
          /\ placed[k].row = 0
          /\ placed[k].start_pos <= placed[k].end_pos
          /\ \A i \in 1..k - 1 : ~C10_Overlap(placed[i], placed[k])
    /\ \E k \in DOMAIN placed : placed[k].row > 0

\* the columns of row r that some interval was placed in
C10_Written(r) == UNION {C10_Columns(placed[i]) : i \in {j \in DOMAIN placed : placed[j].row = r}}

\* C10: no cell is written by more than one interval or letter: intervals
\* whose columns, letter included, overlap are in different rows, an interval
\* that overlaps an earlier interval in every row there was is in a further
\* row, and every cell holds what its one interval wrote or was never written.
C10_NoCellWrittenTwice ==
    /\ \A i, j \in DOMAIN placed :
          (i < j /\ C10_Overlap(placed[i], placed[j])) => placed[i].row # placed[j].row
    /\ \A k \in DOMAIN placed :
          LET before == {placed[i].row : i \in 1..k - 1}
          IN  (\A r \in before : \E i \in 1..k - 1 :
                  placed[i].row = r /\ C10_Overlap(placed[i], placed[k])) =>
              placed[k].row \notin before
    /\ \A i \in DOMAIN placed : \A c \in C10_Columns(placed[i]) :
          TaskRow(placed[i].row)[c] =
              IF c = placed[i].start_pos - 1
              THEN Pixel(placed[i].call.index, placed[i].call.pixel.color)
              ELSE placed[i].call.pixel
    /\ \A r \in 0..TaskRowCount - 1 : \A c \in (0..UI_MAX_WIDTH - 1) \ C10_Written(r) :
          \/ IsEmpty(TaskRow(r)[c])
          \/ tl_pc = "done" /\ TaskRow(r)[c] = Pixel("|", Some("Red"))

\* three intervals in rows 0, 1 and 2, the third overlapping both others,
\* and an interval whose letter column is the last column of another
C10_Witness ==
    /\ \E i, j, k \in DOMAIN placed :
          /\ i < k /\ j < k
          /\ placed[i].row = 0 /\ placed[j].row = 1 /\ placed[k].row = 2
          /\ C10_Overlap(placed[i], placed[k])
          /\ C10_Overlap(placed[j], placed[k])
    /\ \E i, j \in DOMAIN placed :
          /\ i < j
          /\ placed[j].start_pos - 1 = placed[i].end_pos
          /\ placed[i].start_pos <= placed[i].end_pos

\* whether the calls of two intervals are for timestamps of the target date
\* with the one ending before the other starts
C11_TimeDisjoint(p, q) ==
    /\ DateIncludes(p.call.start_dt) /\ DateIncludes(p.call.end_dt)
    /\ DateIncludes(q.call.start_dt) /\ DateIncludes(q.call.end_dt)
    /\ Unwrap(p.call.start_dt) <= Unwrap(p.call.end_dt)
    /\ Unwrap(p.call.end_dt) < Unwrap(q.call.start_dt)
    /\ Unwrap(q.call.start_dt) <= Unwrap(q.call.end_dt)

\* C11 as stated: when the only two intervals placed are of two tasks and the
\* one ends, in time, before the other starts, they are in the same row.
C11_Original ==
    (/\ Len(placed) = 2
     /\ placed[1].call.index # placed[2].call.index
     /\ \/ C11_TimeDisjoint(placed[1], placed[2])
        \/ C11_TimeDisjoint(placed[2], placed[1]))
    => placed[1].row = placed[2].row

\* C11: when the only two intervals placed have no column in common, the
\* letter column of each included, they are in the same row.
C11_DisjointColumnsShareRow ==
    (Len(placed) = 2 /\ ~C10_Overlap(placed[1], placed[2]))
    => placed[1].row = 0 /\ placed[2].row = 0

\* the only two intervals placed are of two tasks, disjoint in time and in
\* columns, and in one row
C11_Witness ==
    /\ Len(placed) = 2
    /\ placed[1].call.index # placed[2].call.index
    /\ C11_TimeDisjoint(placed[1], placed[2])
    /\ ~C10_Overlap(placed[1], placed[2])
    /\ placed[1].row = placed[2].row

\* the least number of rows the intervals placed can be laid out in: the
\* most intervals any one column belongs to
C12_MinRows ==
    LET count(c) == Cardinality({i \in DOMAIN placed : c \in C10_Columns(placed[i])})
    IN  IF placed = <<>> THEN 0
        ELSE CHOOSE n \in 1..Len(placed) :
                /\ \E c \in 0..UI_MAX_WIDTH - 1 : count(c) = n
                /\ \A c \in 0..UI_MAX_WIDTH - 1 : count(c) <= n

\* C12 as stated: the canvas ends with the least number of task rows the
\* intervals can be laid out in.
C12_Original == tl_pc = "done" => TaskRowCount = C12_MinRows

\* C12: the canvas has the rows first fit gives the intervals in the order
\* they are queued: every row holds an interval, and an interval is in a row
\* below the first only if it overlaps an earlier interval in every row above.
C12_FirstFitRows ==
    /\ TaskRowCount = Cardinality({placed[i].row : i \in DOMAIN placed})
    /\ \A i \in DOMAIN placed : placed[i].row \in 0..TaskRowCount - 1
    /\ \A k \in DOMAIN placed : \A r \in 0..placed[k].row - 1 :
          \E i \in 1..k - 1 : placed[i].row = r /\ C10_Overlap(placed[i], placed[k])

\* the timeline is drawn with one row more than the intervals need
C12_Witness == tl_pc = "done" /\ TaskRowCount = C12_MinRows + 1

\* C13 as stated: a strong interval that starts at an actual_start of the
\* target date ends at the column of actual_complete if that is set and of
\* the target date, else at the column of now if the target date is today,
\* else at the right edge of the canvas (columns as they are drawn, clamped).
C13_Original ==
    \A i \in DOMAIN pending :
        (pending[i].pixel.content = "=" /\ IsSome(pending[i].start_dt)) =>
            Clamp(pending[i].end_pos, 1, UI_MAX_WIDTH - 1) =
                Clamp(IF DateIncludes(pending[i].end_dt)
                      THEN GetPosInRow(Unwrap(pending[i].end_dt), now)
                      ELSE IF DateNaive(now) = date THEN GetPosInRow(now, now)
                      ELSE UI_MAX_WIDTH - 1, 1, UI_MAX_WIDTH - 1)

\* the column of the now cursor
C14_NowColumn == CHOOSE c \in 0..UI_MAX_WIDTH - 1 :
    C8_IsNearest(c, GetPosInRow(now, now), 0, UI_MAX_WIDTH - 1)

C14_Cursor(content) == Pixel(content, Some("Red"))

\* C14: when draw finishes for today, the cursor puts 'v' and '^' on the
\* scale borders at the now column and '|' in the task rows at that column
\* where the cell was empty, and every other cell of a task row is as it
\* was; for another day the task rows and the borders hold no cursor.
C14_CursorKeepsGlyphs ==
    [][(tl_pc = "tasks" /\ tl_pc' = "done") =>
        LET n == Len(canvas)
            today == DateNaive(now) = date
        IN  /\ Len(canvas') = n + 4
            /\ canvas'[1] = ScaleHours /\ canvas'[n + 4] = ScaleHours
            /\ \A c \in 0..UI_MAX_WIDTH - 1 :
                  /\ canvas'[2][c] = IF today /\ c = C14_NowColumn
                                     THEN C14_Cursor("v") ELSE ScaleBorder[c]
                  /\ canvas'[n + 3][c] = IF today /\ c = C14_NowColumn
                                         THEN C14_Cursor("^") ELSE ScaleBorder[c]
            /\ \A r \in 1..n : \A c \in 0..UI_MAX_WIDTH - 1 :
                  canvas'[r + 2][c] =
                      IF today /\ c = C14_NowColumn /\ canvas[r][c].content = " "
                      THEN C14_Cursor("|") ELSE canvas[r][c]]_vars

\* a timeline of today is drawn in which the cursor meets a glyph in one
\* task row and an empty cell in another
C14_Witness ==
    /\ tl_pc = "done"
    /\ DateNaive(now) = date
    /\ canvas[2][C14_NowColumn] = C14_Cursor("v")
    /\ \E r \in 0..TaskRowCount - 1 : TaskRow(r)[C14_NowColumn].content \in {"-", "="}
    /\ \E r \in 0..TaskRowCount - 1 : TaskRow(r)[C14_NowColumn] = C14_Cursor("|")

(***************************************************************************)
(* Claims about the command loop, checked under SpecManager.               *)
(***************************************************************************)
C15_IndexedCommands == {"start", "complete", "delete", "edit"}

\* C15: a start, complete, delete or edit command whose index is not below
\* the number of tasks reports "index out of range", changes neither the
\* collection nor the file, and leaves the loop accepting commands.
C15_OutOfRangeIsReported ==
    [][(ret'.op \in C15_IndexedCommands /\ ret'.index >= Len(tasks)) =>
        /\ ret'.out = "index out of range"
        /\ tasks' = tasks
        /\ file' = file
        /\ Running']_vars

\* an indexed command was refused on a collection that holds tasks, and
\* the loop goes on
C15_Witness ==
    /\ ret.op \in C15_IndexedCommands
    /\ ret.out = "index out of range"
    /\ ret.index >= Len(tasks)
    /\ Len(tasks) > 0
    /\ file = DumpTasks(tasks)
    /\ Running

\* C16 as stated: in every state the commands reach, every task has its
\* planned pair both set or both unset, and planned_start no later than
\* planned_complete when set.
C16_Original ==
    \A i \in DOMAIN tasks :
        /\ IsSome(tasks[i].planned_start) <=> IsSome(tasks[i].planned_complete)
        /\ IsSome(tasks[i].planned_start) =>
              Unwrap(tasks[i].planned_start) <= Unwrap(tasks[i].planned_complete)

\* C17 as stated: in every state the commands reach, every task with both
\* actual timestamps set has actual_start no later than actual_complete.
C17_Original ==
    \A i \in DOMAIN tasks :
        (IsSome(tasks[i].actual_start) /\ IsSome(tasks[i].actual_complete)) =>
            Unwrap(tasks[i].actual_start) <= Unwrap(tasks[i].actual_complete)

\* whether a record breaks an invariant of the timestamps
C18_Violates(task) ==
    \/ IsSome(task.planned_start) # IsSome(task.planned_complete)
    \/ /\ IsSome(task.planned_start) /\ IsSome(task.planned_complete)
       /\ Unwrap(task.planned_start) > Unwrap(task.planned_complete)
    \/ /\ IsSome(task.actual_start) /\ IsSome(task.actual_complete)
       /\ Unwrap(task.actual_start) > Unwrap(task.actual_complete)

\* C18 as stated: no operation that constructs a task produces a record
\* that breaks a timestamp invariant: a launch that loaded the file holds
\* no such record, and the new command (new_planned_task) has added none.
C18_Original ==
    /\ (ret.op = "launch" /\ ~Panicked) =>
            \A i \in DOMAIN tasks : ~C18_Violates(tasks[i])
    /\ ret.op = "new" => ~C18_Violates(tasks[Len(tasks)])

C19_Fields(t) ==
    <<t.description, t.planned_start, t.planned_complete, t.actual_start,
      t.actual_complete>>

\* C19 as stated: every collection the commands reach is written by
\* dump_tasks and read back by load_tasks_from_file without failure, as the
\* same records in the same order, and every later launch loads the file.
C19_Original ==
    /\ ~LoadTasksFromFilePanics(DumpTasks(tasks))
    /\ LET loaded == LoadTasksFromFile(DumpTasks(tasks))
       IN  /\ Len(loaded) = Len(tasks)
           /\ \A i \in DOMAIN tasks : C19_Fields(loaded[i]) = C19_Fields(tasks[i])
    /\ ret.op = "launch" => ~Panicked

C21_Asymmetric ==
    ret.op = "has_higher_priority_than" =>
        /\ ~ret.ab.panicked /\ ~ret.ba.panicked /\ ~ret.aa.panicked
        /\ ~(ret.ab.value /\ ret.ba.value)
        /\ ~ret.aa.value

\* two refreshed Overdue tasks with different planned_start were compared:
\* the first ranks above the second and not the other way round
C21_Witness ==
    /\ ret.op = "has_higher_priority_than"
    /\ tasks[1].status = "Overdue" /\ tasks[2].status = "Overdue"
    /\ Unwrap(tasks[1].planned_start) < Unwrap(tasks[2].planned_start)
    /\ ret.ab.value /\ ~ret.ba.value /\ ~ret.aa.value

(***************************************************************************)
(* Claims about the ll command, checked under SpecLl.                      *)
(***************************************************************************)
C22_Alphabet ==
    <<"a", "b", "c", "d", "e", "f", "g", "h", "i", "j", "k", "l", "m", "n", "o",
      "p", "q", "r", "s", "t", "u", "v", "w", "x", "y", "z">>

\* how many tasks before store position i satisfy the filter
C22_SatisfyingBefore(i) ==
    Cardinality({j \in 1..i - 1 : Satisfy(tasks[j], ret.option)})

\* C22: the assertion of Timeline::new never fails; the timeline is given
\* the first 26 satisfying tasks in store order; draw gives the k-th of them
\* the letter 'a'+k; the renders below the chart carry the store index and
\* that letter, the letters pairwise distinct.
C22_CapAndLetters ==
    ret.op = "ll" =>
        /\ ret.pc # "assert"
        /\ Len(ret.visible) <= 26
        /\ {ret.visible[k].index : k \in DOMAIN ret.visible} =
              {i - 1 : i \in {j \in DOMAIN tasks :
                  Satisfy(tasks[j], ret.option) /\ C22_SatisfyingBefore(j) < 26}}
        /\ \A k \in DOMAIN ret.visible :
              /\ ret.visible[k].task = tasks[ret.visible[k].index + 1]
              /\ k > 1 => ret.visible[k - 1].index < ret.visible[k].index
        /\ \A j \in DOMAIN pending : pending[j].index = C22_Alphabet[ret.walked]
        /\ (ret.pc = "rendered" /\ ~ret.panicked) =>
              /\ Len(ret.rendered) = Len(ret.visible)
              /\ \A k \in DOMAIN ret.rendered :
                    /\ ret.rendered[k].index = ret.visible[k].index
                    /\ ret.rendered[k].timeline_index = C22_Alphabet[k]
                    /\ \A j \in DOMAIN ret.rendered :
                          j # k => ret.rendered[j].timeline_index #
                                   ret.rendered[k].timeline_index

\* ll on a collection with more than 26 satisfying tasks and one task the
\* filter leaves out: 26 tasks are drawn and rendered, the last under the
\* letter z with a store index that is not its place in the selection
C22_Witness ==
    /\ ret.op = "ll"
    /\ ret.pc = "rendered"
    /\ Len(Satisfying(tasks, ret.option)) > 26
    /\ Len(ret.rendered) = 26
    /\ ret.rendered[26].timeline_index = "z"
    /\ ret.rendered[26].index = 26

(***************************************************************************)
(* Claims about the parser, checked under SpecCommand.                     *)
(***************************************************************************)
\* the same line with ls as its command word
C23_AsLs(args) == <<"ls">> \o Tail(args)

\* C23: an ll line is rejected exactly when the same line with ls is, or
\* when the date filter ls would take from it has an operator other than
\* equality, and an ll line accepted has the option of the ls line with
\* has_timeline set; every ll command dispatched passes the assertion on the
\* operator and names one date.
C23_LlTakesEqualityOnly ==
    /\ (ret.op = "parse_command" /\ ret.args[1] = "ll") =>
          LET ls == TryParseListOption(C23_AsLs(ret.args), DateNaive(now))
          IN  IF ~IsSome(ls) \/ Unwrap(ls).date_filter[1] # "Equal"
              THEN ret.command = None
              ELSE ret.command = Some([Unwrap(ls) EXCEPT !.has_timeline = TRUE])
    /\ (ret.op = "parse_command" /\ ret.args[1] = "ll" /\ Len(ret.args) = 2
        /\ ret.args[2][1] \in {"<", ">"}) => ret.command = None
    /\ (ret.op = "dispatch_command" /\ ret.option.has_timeline) =>
          /\ ~ret.panicked
          /\ ret.option.date_filter[1] = "Equal"

\* ll >=1 was typed and rejected
C23_Witness ==
    /\ ret.op = "invalid command"
    /\ ret.args = <<"ll", <<">", "=", "1">>>>

(***************************************************************************)
(* Claims about the constructors, checked under SpecCreate.                *)
(***************************************************************************)
\* C24: a task is created immediate (actual_start the reading of the clock,
\* nothing else set, Ongoing), planned (the planned pair as given, nothing
\* else set, Overdue if planned_start is earlier than the reading of the
\* clock, else Planned) or backlog (nothing set, Backlog); is_deleted is
\* false and the description the one given.
C24_ThreeShapes ==
    /\ ret.op = "new_immediate_task" =>
          tasks[1] = [description |-> ret.description, planned_start |-> None,
                      planned_complete |-> None, actual_start |-> Some(now),
                      actual_complete |-> None, status |-> "Ongoing",
                      is_deleted |-> FALSE]
    /\ ret.op = "new_planned_task" =>
          tasks[1] = [description |-> ret.description,
                      planned_start |-> Some(ret.start),
                      planned_complete |-> Some(ret.end), actual_start |-> None,
                      actual_complete |-> None,
                      status |-> IF ret.start < now THEN "Overdue" ELSE "Planned",
                      is_deleted |-> FALSE]
    /\ ret.op = "new_backlog_task" =>
          tasks[1] = [description |-> ret.description, planned_start |-> None,
                      planned_complete |-> None, actual_start |-> None,
                      actual_complete |-> None, status |-> "Backlog",
                      is_deleted |-> FALSE]

\* a planned task was created with planned_start at the very reading of the
\* clock: it is Planned
C24_Witness ==
    /\ ret.op = "new_planned_task"
    /\ ret.start = now
    /\ ret.start < ret.end
    /\ tasks[1].status = "Planned"

(***************************************************************************)
(* Claims about one command on any collection, checked under SpecStep.     *)
(***************************************************************************)
\* the fields of a task that start and complete must leave alone
C25_KeptByStart(old, new) ==
    /\ new.description = old.description
    /\ new.planned_start = old.planned_start
    /\ new.planned_complete = old.planned_complete
    /\ new.actual_complete = old.actual_complete
    /\ new.is_deleted = old.is_deleted
C25_KeptByComplete(old, new) ==
    /\ new.description = old.description
    /\ new.planned_start = old.planned_start
    /\ new.planned_complete = old.planned_complete
    /\ new.actual_start = old.actual_start
    /\ new.is_deleted = old.is_deleted

\* C25: a start command with a valid index sets actual_start of that task to
\* the reading of the clock and its status to Ongoing and leaves its other
\* fields alone; a complete command sets actual_complete and Complete and
\* leaves the other fields alone; whatever the status was before; no other
\* task of the collection changes.
C25_StartAndComplete ==
    [][/\ (ret'.op = "start" /\ ret'.out = "task started") =>
            /\ Len(tasks') = Len(tasks)
            /\ \A i \in 1..Len(tasks) :
                  IF i = ret'.index + 1
                  THEN /\ tasks'[i].actual_start = Some(now')
                       /\ tasks'[i].status = "Ongoing"
                       /\ C25_KeptByStart(tasks[i], tasks'[i])
                  ELSE tasks'[i] = tasks[i]
       /\ (ret'.op = "complete" /\ ret'.out = "task completed") =>
            /\ Len(tasks') = Len(tasks)
            /\ \A i \in 1..Len(tasks) :
                  IF i = ret'.index + 1
                  THEN /\ tasks'[i].actual_complete = Some(now')
                       /\ tasks'[i].status = "Complete"
                       /\ C25_KeptByComplete(tasks[i], tasks'[i])
                  ELSE tasks'[i] = tasks[i]]_vars

\* a task that had been completed was started again, next to another task
C25_Witness ==
    /\ ret.op = "start"
    /\ ret.out = "task started"
    /\ Len(tasks) = 2
    /\ tasks[ret.index + 1].status = "Ongoing"
    /\ tasks[ret.index + 1].actual_complete # None
    /\ tasks[ret.index + 1].actual_start = Some(now)

\* no task of the collection, and no task handed to the timeline, has
\* is_deleted set
C28_NoneDeleted ==
    /\ \A i \in 1..Len(tasks) : ~tasks[i].is_deleted
    /\ (ret.op = "ll" /\ ~ret.panicked) =>
          \A i \in 1..Len(ret.visible) : ~ret.visible[i].task.is_deleted

\* C28: a delete command with a valid index i removes the record at position
\* i: the collection is one shorter, the records before i are where they
\* were, the records after i are one position lower, all with every field
\* unchanged.  No command, and no launch, sets is_deleted: after any command
\* on a collection of tasks that are not deleted every task is still not
\* deleted, and populate_task is never called with a deleted task.
C28_DeleteRemovesOne ==
    /\ []C28_NoneDeleted
    /\ [][(ret'.op = "delete" /\ ret'.out = "task deleted") =>
            /\ Len(tasks') = Len(tasks) - 1
            /\ \A k \in 0..(Len(tasks) - 1) :
                  /\ k < ret'.index => tasks'[k + 1] = tasks[k + 1]
                  /\ k > ret'.index => tasks'[k] = tasks[k + 1]]_vars

\* the first of two different tasks was deleted: the second is now first
C28_Witness ==
    /\ ret.op = "delete"
    /\ ret.out = "task deleted"
    /\ ret.index = 0
    /\ Len(tasks) = 1
    /\ tasks[1].status = "Complete"

\* the file f holds the collection ts: one record of five fields for each
\* task, in order, with its description and its four timestamps
C27_FileHolds(f, ts) ==
    /\ Len(f) = Len(ts)
    /\ \A i \in 1..Len(ts) :
          /\ Len(f[i]) = 5
          /\ f[i][1] = ts[i].description
          /\ DatetimeOptFromString(f[i][2]) = ts[i].planned_start
          /\ DatetimeOptFromString(f[i][3]) = ts[i].planned_complete
          /\ DatetimeOptFromString(f[i][4]) = ts[i].actual_start
          /\ DatetimeOptFromString(f[i][5]) = ts[i].actual_complete

\* C27: after new, sort, and start, complete, delete or edit with a valid
\* index, when the command completes, the file holds exactly the collection
\* in memory: as many records, in the same order, with the same description
\* and four timestamps.  ls, ll, help, the empty command and a command whose
\* index is out of range leave the file as it was, absent if it was absent.
C27_FileAfterCommand ==
    [][LET indexed == ret'.op \in {"start", "complete", "delete", "edit"}
           aborted == IF "panicked" \in DOMAIN ret' THEN ret'.panicked ELSE FALSE
           refused == IF indexed THEN ret'.out = "index out of range" ELSE FALSE
       IN  /\ ((ret'.op \in {"new", "sort"} \/ (indexed /\ ~refused)) /\ ~aborted)
                 => C27_FileHolds(file', tasks')
           /\ (ret'.op \in {"list", "ll", "help"} \/ refused) => file' = file]_vars

\* the second of two tasks was edited and the file rewritten
C27_Witness ==
    /\ ret.op = "edit"
    /\ ret.out = "task edited"
    /\ ret.index = 1
    /\ tasks[1].actual_start # None
    /\ tasks[2].actual_complete # None
    /\ tasks[2].planned_start # None
    /\ tasks[1] # tasks[2]
    /\ file = DumpTasks(tasks)

\* the collection new is the collection old with every status recomputed at
\* one reading of the clock between the two instants
C26_Refreshed(old, new, from, to) ==
    \E t \in ClockReadings :
        /\ from <= t
        /\ t <= to
        /\ Len(new) = Len(old)
        /\ \A i \in 1..Len(old) : new[i] = UpdateStatus(old[i], t)

\* C26: what a command reads of the statuses is what update_status has just
\* computed.  ls shows the tasks that satisfy the option with every status
\* refreshed; ll selects among the refreshed tasks and nothing changes them
\* while it draws and renders; sort leaves the refreshed tasks in the order
\* of their refreshed statuses; edit leaves the edited task with the status
\* of its new timestamps; a launch leaves every loaded task refreshed.
C26_RefreshedBeforeRead ==
    [][/\ ret'.op = "list" =>
            /\ C26_Refreshed(tasks, tasks', now, now')
            /\ \E option \in LsOptions :
                  LET satisfying == {i - 1 : i \in {j \in 1..Len(tasks') :
                                                    Satisfy(tasks'[j], option)}}
                  IN  IF ret'.panicked THEN ret'.shown \subseteq satisfying
                      ELSE ret'.shown = satisfying
       /\ (ret.op = "none" /\ ret'.op = "ll" /\ ~ret'.panicked) =>
            /\ C26_Refreshed(tasks, tasks', now, now')
            /\ \A k \in 1..Len(ret'.visible) :
                  /\ ret'.visible[k].task = tasks'[ret'.visible[k].index + 1]
                  /\ Satisfy(ret'.visible[k].task, ret'.option)
       /\ (ret.op = "ll" /\ ret'.op = "ll") =>
            /\ tasks' = tasks
            /\ ret'.visible = ret.visible
       /\ (ret'.op = "sort" /\ ~ret'.panicked) =>
            /\ \E t \in ClockReadings :
                  /\ now <= t
                  /\ t <= now'
                  /\ \A i \in 1..Len(tasks') : tasks'[i] = UpdateStatus(tasks'[i], t)
            /\ \A i, j \in 1..Len(tasks') :
                  i < j => ~HasHigherPriorityThan(tasks'[j], tasks'[i])
       /\ (ret'.op = "edit" /\ ret'.out = "task edited") =>
            tasks'[ret'.index + 1] = UpdateStatus(tasks'[ret'.index + 1], now')
       /\ (ret'.op = "launch" /\ ~ret'.panicked) =>
            \A i \in 1..Len(tasks') : tasks'[i] = UpdateStatus(tasks'[i], now')]_vars

\* ls at 09:01 found a task started at 09:00 whose status was the one a
\* refresh at 09:00 had left, refreshed it to Ongoing and showed it
C26_Witness ==
    /\ ret.op = "list"
    /\ ~ret.panicked
    /\ now = At(0, 9, 1)
    /\ Len(tasks) = 1
    /\ tasks[1].status = "Ongoing"
    /\ file = DumpTasks(<<UpdateStatus(tasks[1], At(0, 9, 0))>>)
    /\ ret.shown = {0}

(***************************************************************************)
(* Claims about get_pos_in_row, checked under SpecPos.                     *)
(***************************************************************************)
\* C29 as stated: for an instant earlier than 08:00 of the day of the clock
\* get_pos_in_row returns the minutes since 08:00 divided by 10 and rounded
\* toward negative infinity: -1 for 07:55, -2 for 07:45.
C29_Original ==
    (ret.op = "get_pos_in_row" /\ ret.dt < At(DateNaive(now), START_HOUR, 0)) =>
        ret.value = (ret.dt - At(DateNaive(now), START_HOUR, 0)) \div TIMELINE_TICK

\* C30 as stated: when ls or ll has refreshed the statuses and renders at a
\* later reading of the clock, the assertion of get_duration holds for every
\* task rendered, whatever its status: listing never aborts on it.
C30_Original ==
    /\ ret.op = "list" => ~ret.panicked
    /\ (ret.op = "ll" /\ ret.pc = "rendered") => ~ret.panicked

(***************************************************************************)
(* Claims about the statuses the command loop leaves, under SpecManager.   *)
(***************************************************************************)
\* the status of the task is one whose timestamp is set
C31_Backed(task) ==
    /\ task.status \in {"Overdue", "Planned"} => IsSome(task.planned_start)
    /\ task.status = "Ongoing" => IsSome(task.actual_start)
    /\ task.status = "Complete" => IsSome(task.actual_complete)

\* C31: after the refresh of a launch and after every command each task's
\* status is backed by the timestamp it reads: Overdue or Planned has
\* planned_start set, Ongoing has actual_start set, Complete has
\* actual_complete set; so the comparisons of the sort command unwrap no unset
\* timestamp, and neither do the renders of a listing.
C31_StatusBacked ==
    /\ \A i \in 1..Len(tasks) : C31_Backed(tasks[i])
    /\ ret.op = "sort" => ~ret.panicked
    /\ ret.op = "list" =>
          \A i \in ret.shown :
              tasks[i + 1].status # "Backlog" =>
                  IsSome(PriorityKey(tasks[i + 1], tasks[i + 1].status))

\* the sort command compared two tasks of one status, not Backlog, and
\* exchanged them
C31_Witness ==
    /\ ret.op = "sort"
    /\ ~ret.panicked
    /\ ret.moved
    /\ Len(tasks) = 2
    /\ tasks[1].status = tasks[2].status
    /\ tasks[1].status = "Ongoing"

(***************************************************************************)
(* Claims about ll as one command on any collection, under SpecStep.       *)
(***************************************************************************)
\* C32 as stated: every call of populate_index_and_line made while the
\* timeline is drawn has its clamped start column not right of its clamped
\* end column, and ll never aborts while placing an interval.
C32_Original ==
    /\ \A i \in DOMAIN pending :
          Clamp(pending[i].start_pos, 1, UI_MAX_WIDTH - 1) <=
              Clamp(pending[i].end_pos, 1, UI_MAX_WIDTH - 1)
    /\ tl_pc # "aborted"

(***************************************************************************)
(* Claims about the lock file, checked under SpecLock.                     *)
(***************************************************************************)
\* the processes between the creation of the lock file and its removal
C33_Holders == {p \in Procs : procs[p].pc \in {"new", "loop", "remove"}}

\* C33: of the processes launched side by side at most one at a time has
\* created the lock file and runs the manager, and the lock file is the one
\* it created; a process that finds the lock file there returns having
\* loaded no task, and its step leaves the task file and the lock file as
\* they were; it does nothing afterwards.
C33_OneHolder ==
    /\ [](/\ Cardinality(C33_Holders) <= 1
          /\ \A p \in C33_Holders : lock_file = Some(p))
    /\ [][\A p \in Procs :
            /\ (procs[p].pc = "main" /\ procs'[p].pc = "refused") =>
                  /\ procs'[p].tasks = <<>>
                  /\ file' = file
                  /\ lock_file' = lock_file
                  /\ IsSome(lock_file)
            /\ procs[p].pc = "refused" => procs'[p] = procs[p]]_vars

\* process 2 was refused while process 1, in its loop, had written a task
C33_Witness ==
    /\ procs[1].pc = "loop"
    /\ procs[1].tasks # <<>>
    /\ file = DumpTasks(procs[1].tasks)
    /\ procs[2].pc = "refused"
    /\ lock_file = Some(1)

\* C34 as stated: a process that created the lock file has removed it once
\* its run has ended, however it ended, so that no later launch finds the
\* lock file of a process that has finished.
C34_Original ==
    \A p \in Procs :
        procs[p].pc \in {"exited", "aborted"} => lock_file # Some(p)

====
